---- MODULE Spec2Model ----
(***************************************************************************)
(* WordPress MCP adapter (JRafael2023/mcpwp).                              *)
(*                                                                         *)
(* Part I   text and JSON values: Python str.strip, the two re.sub fence   *)
(*          patterns, the character scan and json.loads, as used by        *)
(*          AIContentGenerator.generate_post_content.                      *)
(* Part II  the normalizer as a state machine (SpecNorm): one provider     *)
(*          text is taken through strip, fence removal, the scan loop      *)
(*          (one iteration per step), json.loads and the field check.      *)
(* Part III the content service, WordPressAPI and the tool dispatchers     *)
(*          (Spec): stdio call_tool, the JSON-RPC wrapper and the REST     *)
(*          endpoint, one step per awaited request.                        *)
(*                                                                         *)
(* A text is a sequence of one-character strings.                          *)
(***************************************************************************)
EXTENDS Integers, Sequences, FiniteSets, TLC

VARIABLES
    \* ---- generation adapter (ai_content_generator.py)
    adapter,        \* the method of AIContentGenerator that was called
    exchange,       \* how the request to the provider went
    escaped,        \* an exception went past the method to its caller
    \* ---- normalizer (generate_post_content, lines 107-186)
    content,        \* the provider's text, response...["content"]
    npc,            \* position in generate_post_content
    content_clean,  \* the text being cleaned
    idx,            \* the scan loop's position in content_clean (1-based)
    in_string,      \* scan: inside a quoted string
    escape_next,    \* scan: the previous character was an unconsumed backslash
    result_chars,   \* scan: the output built so far
    result,         \* the value json.loads returned
    retval,         \* what generate_post_content returned
    \* ---- configuration and processes (server.py, mcp_http_wrapper.py, http_server.py)
    env_ai_key,     \* whether the environment holds a generation credential
    ai_generator,   \* the long-lived AIContentGenerator of the stdio and REST servers
    task,           \* per handler invocation: its position, locals, requests and response
    calls,          \* tool calls accepted so far
    \* ---- the content service behind WP_URL
    wp_categories,  \* its category terms, in listing order
    wp_tags,        \* its tag terms, in listing order
    wp_posts,       \* its posts
    wp_media,       \* its media objects
    next_id,        \* the id it gives to the next created object
    \* ---- the notification channel (mcp_http_wrapper.py 98-141)
    sse             \* per connection: the event generator's position, what it has
                    \* yielded, and whether the client is still connected

nvars == <<adapter, exchange, escaped, content, npc, content_clean, idx, in_string,
           escape_next, result_chars, result, retval>>
dvars == <<env_ai_key, ai_generator, task, calls, wp_categories, wp_tags, wp_posts,
           wp_media, next_id>>
svars == <<sse>>

(***************************************************************************)
(* Part I.  Characters and texts                                           *)
(***************************************************************************)
LF == "\n"
CR == "\r"
TAB == "\t"
FF == "\f"
QUOTE == "\""
BACKSLASH == "\\"
\* SANY accepts no grave accent in a string: the character is named
BACKTICK == "GRAVE"

\* str.strip() and the regex class \s remove every Unicode white space; the
\* form feed stands here for the white space that JSON does not accept.
PySpace == {" ", TAB, LF, CR, FF}
\* json.decoder.WHITESPACE: [ \t\n\r]*
JsonWhitespace == {" ", TAB, LF, CR}
\* py_scanstring(strict=True) rejects every character below 0x20 in a string.
ControlChars == {TAB, LF, CR, FF}
Digits == {"0", "1", "2", "3", "4", "5", "6", "7", "8", "9"}
HexDigits == Digits \cup {"a", "b", "c", "d", "e", "f", "A", "B", "C", "D", "E", "F"}

FENCE == <<BACKTICK, BACKTICK, BACKTICK>>
JSON_TAG == <<"j", "s", "o", "n">>

Drop(s, n) == SubSeq(s, n + 1, Len(s))
StartsWithAt(s, i, p) ==
    /\ i + Len(p) - 1 <= Len(s)
    /\ \A k \in 1..Len(p) : s[i + k - 1] = p[k]
StartsWith(s, p) == StartsWithAt(s, 1, p)
EndsWith(s, p) == Len(p) <= Len(s) /\ StartsWithAt(s, Len(s) - Len(p) + 1, p)

\* index of the first character at or after i that is not in ws (Len(s)+1 if none)
SkipFrom(s, i, ws) ==
    IF \A k \in i..Len(s) : s[k] \in ws THEN Len(s) + 1
    ELSE CHOOSE k \in i..Len(s) : s[k] \notin ws /\ \A j \in i..(k - 1) : s[j] \in ws
\* index of the last character that is not in ws (0 if none)
LastNot(s, ws) ==
    IF \A k \in 1..Len(s) : s[k] \in ws THEN 0
    ELSE CHOOSE k \in 1..Len(s) : s[k] \notin ws /\ \A j \in (k + 1)..Len(s) : s[j] \in ws

\* content.strip()
Strip(s) == SubSeq(s, SkipFrom(s, 1, PySpace), LastNot(s, PySpace))

\* re.sub(r'^FENCE(?:json)?\s*\n?', '', s), FENCE being three grave accents: the fence, the tag json when it is
\* there, then the white space run (\s* is greedy, so \n? never has a newline left).
SubFenceStart_anyTagKept(s) ==
    IF ~StartsWith(s, FENCE) THEN s ELSE Drop(s, SkipFrom(s, 4, PySpace) - 1)

SubFenceStart(s) ==
    IF ~StartsWith(s, FENCE) THEN s
    ELSE LET a == IF StartsWithAt(s, 4, JSON_TAG) THEN 8 ELSE 4
         IN  Drop(s, SkipFrom(s, a, PySpace) - 1)

\* re.sub(r'\n?FENCE\s*$', '', s): the last fence when only white space follows
\* it, with the newline before it when there is one.
SubFenceEnd(s) ==
    LET e == LastNot(s, PySpace)
        t == SubSeq(s, 1, e)
    IN  IF ~EndsWith(t, FENCE) THEN s
        ELSE IF e >= 4 /\ s[e - 3] = LF THEN SubSeq(s, 1, e - 4)
        ELSE SubSeq(s, 1, e - 3)

\* lines 116-120
CleanFence(c) ==
    LET s == Strip(c)
    IN  IF StartsWith(s, FENCE) THEN SubFenceEnd(SubFenceStart(s)) ELSE s

(***************************************************************************)
(* The character scan, lines 124-155: one loop iteration.                  *)
(***************************************************************************)
ScanState == [in_string : BOOLEAN, escape_next : BOOLEAN, result_chars : Seq(STRING)]
ScanInit == [in_string |-> FALSE, escape_next |-> FALSE, result_chars |-> <<>>]

\* a variant in which an escaped double quote still toggles in_string
ScanStep_escapedQuoteToggles(st, char) ==
    IF st.escape_next
    THEN [st EXCEPT !.result_chars = Append(@, char), !.escape_next = FALSE,
                    !.in_string = IF char = QUOTE THEN ~@ ELSE @]
    ELSE IF char = BACKSLASH
    THEN [st EXCEPT !.escape_next = TRUE, !.result_chars = Append(@, char)]
    ELSE IF char = QUOTE
    THEN [st EXCEPT !.in_string = ~@, !.result_chars = Append(@, char)]
    ELSE IF st.in_string /\ char = LF
    THEN [st EXCEPT !.result_chars = @ \o <<BACKSLASH, "n">>]
    ELSE IF st.in_string /\ char = CR
    THEN st
    ELSE IF st.in_string /\ char = TAB
    THEN [st EXCEPT !.result_chars = @ \o <<BACKSLASH, "t">>]
    ELSE [st EXCEPT !.result_chars = Append(@, char)]

\* a variant that turns a carriage return inside a string into a newline
ScanStep_returnToNewline(st, char) ==
    IF st.escape_next
    THEN [st EXCEPT !.result_chars = Append(@, char), !.escape_next = FALSE]
    ELSE IF char = BACKSLASH
    THEN [st EXCEPT !.escape_next = TRUE, !.result_chars = Append(@, char)]
    ELSE IF char = QUOTE
    THEN [st EXCEPT !.in_string = ~@, !.result_chars = Append(@, char)]
    ELSE IF st.in_string /\ char = LF
    THEN [st EXCEPT !.result_chars = @ \o <<BACKSLASH, "n">>]
    ELSE IF st.in_string /\ char = CR
    THEN [st EXCEPT !.result_chars = Append(@, LF)]
    ELSE IF st.in_string /\ char = TAB
    THEN [st EXCEPT !.result_chars = @ \o <<BACKSLASH, "t">>]
    ELSE [st EXCEPT !.result_chars = Append(@, char)]

\* a variant that escapes a newline wherever it stands
ScanStep_everyNewline(st, char) ==
    IF st.escape_next
    THEN [st EXCEPT !.result_chars = Append(@, char), !.escape_next = FALSE]
    ELSE IF char = BACKSLASH
    THEN [st EXCEPT !.escape_next = TRUE, !.result_chars = Append(@, char)]
    ELSE IF char = QUOTE
    THEN [st EXCEPT !.in_string = ~@, !.result_chars = Append(@, char)]
    ELSE IF char = LF
    THEN [st EXCEPT !.result_chars = @ \o <<BACKSLASH, "n">>]
    ELSE IF st.in_string /\ char = CR
    THEN st
    ELSE IF st.in_string /\ char = TAB
    THEN [st EXCEPT !.result_chars = @ \o <<BACKSLASH, "t">>]
    ELSE [st EXCEPT !.result_chars = Append(@, char)]

ScanStep_newlineKept(st, char) ==
    IF st.escape_next
    THEN [st EXCEPT !.result_chars = Append(@, char), !.escape_next = FALSE]
    ELSE IF char = BACKSLASH
    THEN [st EXCEPT !.escape_next = TRUE, !.result_chars = Append(@, char)]
    ELSE IF char = QUOTE
    THEN [st EXCEPT !.in_string = ~@, !.result_chars = Append(@, char)]
    ELSE IF st.in_string /\ char = CR
    THEN st
    ELSE IF st.in_string /\ char = TAB
    THEN [st EXCEPT !.result_chars = @ \o <<BACKSLASH, "t">>]
    ELSE [st EXCEPT !.result_chars = Append(@, char)]

ScanStep(st, char) ==
    IF st.escape_next
    THEN [st EXCEPT !.result_chars = Append(@, char), !.escape_next = FALSE]
    ELSE IF char = BACKSLASH
    THEN [st EXCEPT !.escape_next = TRUE, !.result_chars = Append(@, char)]
    ELSE IF char = QUOTE
    THEN [st EXCEPT !.in_string = ~@, !.result_chars = Append(@, char)]
    ELSE IF st.in_string /\ char = LF
    THEN [st EXCEPT !.result_chars = @ \o <<BACKSLASH, "n">>]
    ELSE IF st.in_string /\ char = CR
    THEN st
    ELSE IF st.in_string /\ char = TAB
    THEN [st EXCEPT !.result_chars = @ \o <<BACKSLASH, "t">>]
    ELSE [st EXCEPT !.result_chars = Append(@, char)]

\* the loop over s[lo..hi], from the state st (the first half is evaluated
\* before the second starts, which keeps the evaluation shallow)
RECURSIVE ScanRange(_, _, _, _)
ScanRange(st, s, lo, hi) ==
    IF lo > hi THEN st
    ELSE IF lo = hi THEN ScanStep(st, s[lo])
    ELSE LET mid == (lo + hi) \div 2
             half == ScanRange(st, s, lo, mid)
         IN  IF half.in_string \in BOOLEAN THEN ScanRange(half, s, mid + 1, hi) ELSE half
\* the whole loop and the join of line 155
Scan(s) == ScanRange(ScanInit, s, 1, Len(s)).result_chars

(***************************************************************************)
(* JSON values.  Every value has the same four fields, so that any two     *)
(* values can be compared: t the kind, s the characters of a string or of  *)
(* a number, a the elements of a list, o the items of a dict in insertion  *)
(* order.  PyNone is Python's None, the failure value of the generator.    *)
(***************************************************************************)
JVal(t, s, a, o) == [t |-> t, s |-> s, a |-> a, o |-> o]
JStr(s) == JVal("str", s, <<>>, <<>>)
JNum(s) == JVal("num", s, <<>>, <<>>)
JNull == JVal("null", <<>>, <<>>, <<>>)
JTrue == JVal("true", <<>>, <<>>, <<>>)
JFalse == JVal("false", <<>>, <<>>, <<>>)
JArr(a) == JVal("list", <<>>, a, <<>>)
JObj(o) == JVal("dict", <<>>, <<>>, o)
PyNone == JVal("None", <<>>, <<>>, <<>>)

HasKey(d, k) == \E n \in 1..Len(d.o) : d.o[n].k = k
Get(d, k) == d.o[CHOOSE n \in 1..Len(d.o) : d.o[n].k = k].v
\* d[k] = v: a key already there keeps its place
SetItem(d, k, v) ==
    IF HasKey(d, k)
    THEN JObj([n \in 1..Len(d.o) |-> IF d.o[n].k = k THEN [k |-> k, v |-> v] ELSE d.o[n]])
    ELSE JObj(Append(d.o, [k |-> k, v |-> v]))

(***************************************************************************)
(* json.loads (json.decoder: JSONDecoder.decode, scan_once, py_scanstring, *)
(* JSONObject, JSONArray).  A parse step returns ok, the value and the     *)
(* index after it; ok = FALSE is JSONDecodeError.                          *)
(***************************************************************************)
PFail == [ok |-> FALSE, v |-> PyNone, i |-> 0]
POk(v, i) == [ok |-> TRUE, v |-> v, i |-> i]
At(s, i) == IF i <= Len(s) THEN s[i] ELSE "EOF"
SkipWs(s, i) == SkipFrom(s, i, JsonWhitespace)

\* BACKSLASH dict of json.decoder; backspace has no TLA+ escape and is named
Unescape(e) ==
    CASE e = QUOTE -> QUOTE
      [] e = BACKSLASH -> BACKSLASH
      [] e = "/" -> "/"
      [] e = "b" -> "BS"
      [] e = "f" -> FF
      [] e = "n" -> LF
      [] e = "r" -> CR
      [] e = "t" -> TAB
EscapeChars == {QUOTE, BACKSLASH, "/", "b", "f", "n", "r", "t"}

\* py_scanstring: i is the index after the opening quote
RECURSIVE scanstring(_, _, _)
scanstring(s, i, acc) ==
    IF i > Len(s) THEN PFail
    ELSE IF s[i] = QUOTE THEN POk(JStr(acc), i + 1)
    ELSE IF s[i] \in ControlChars THEN PFail
    ELSE IF s[i] # BACKSLASH THEN scanstring(s, i + 1, Append(acc, s[i]))
    ELSE IF At(s, i + 1) \in EscapeChars
    THEN scanstring(s, i + 2, Append(acc, Unescape(s[i + 1])))
    ELSE IF At(s, i + 1) = "u" /\ \A k \in 2..5 : At(s, i + k) \in HexDigits
    THEN scanstring(s, i + 6,
             Append(acc, "U+" \o s[i + 2] \o s[i + 3] \o s[i + 4] \o s[i + 5]))
    ELSE PFail

\* NUMBER_RE, integer part: -?(0|[1-9]\d*); the index after the match, 0 if none
MatchNumber(s, i) ==
    LET d == IF At(s, i) = "-" THEN i + 1 ELSE i
    IN  IF At(s, d) \notin Digits THEN 0
        ELSE IF s[d] = "0" THEN d + 1
        ELSE SkipFrom(s, d, Digits)

RECURSIVE scan_once(_, _), JSONObjectItems(_, _, _), JSONArrayItems(_, _, _)
\* JSONObject from a key's opening quote at i on; d holds the pairs so far
JSONObjectItems(s, i, d) ==
    LET key == scanstring(s, i + 1, <<>>)
    IN  IF ~key.ok THEN PFail
        ELSE LET c == SkipWs(s, key.i)
             IN  IF At(s, c) # ":" THEN PFail
                 ELSE LET val == scan_once(s, SkipWs(s, c + 1))
                      IN  IF ~val.ok THEN PFail
                          ELSE LET d2 == SetItem(d, key.v.s, val.v)
                                   e == SkipWs(s, val.i)
                               IN  IF At(s, e) = "}" THEN POk(d2, e + 1)
                                   ELSE IF At(s, e) # "," THEN PFail
                                   ELSE IF At(s, SkipWs(s, e + 1)) # QUOTE THEN PFail
                                   ELSE JSONObjectItems(s, SkipWs(s, e + 1), d2)

\* JSONArray from the first character of an element at i on
JSONArrayItems(s, i, a) ==
    LET val == scan_once(s, i)
    IN  IF ~val.ok THEN PFail
        ELSE LET a2 == Append(a, val.v)
                 e == SkipWs(s, val.i)
             IN  IF At(s, e) = "]" THEN POk(JArr(a2), e + 1)
                 ELSE IF At(s, e) # "," THEN PFail
                 ELSE JSONArrayItems(s, SkipWs(s, e + 1), a2)

scan_once(s, i) ==
    LET c == At(s, i)
    IN  IF c = QUOTE THEN scanstring(s, i + 1, <<>>)
        ELSE IF c = "{"
        THEN LET n == SkipWs(s, i + 1)
             IN  IF At(s, n) = "}" THEN POk(JObj(<<>>), n + 1)
                 ELSE IF At(s, n) # QUOTE THEN PFail
                 ELSE JSONObjectItems(s, n, JObj(<<>>))
        ELSE IF c = "["
        THEN LET n == SkipWs(s, i + 1)
             IN  IF At(s, n) = "]" THEN POk(JArr(<<>>), n + 1)
                 ELSE JSONArrayItems(s, n, <<>>)
        ELSE IF c = "n" /\ StartsWithAt(s, i, <<"n", "u", "l", "l">>) THEN POk(JNull, i + 4)
        ELSE IF c = "t" /\ StartsWithAt(s, i, <<"t", "r", "u", "e">>) THEN POk(JTrue, i + 4)
        ELSE IF c = "f" /\ StartsWithAt(s, i, <<"f", "a", "l", "s", "e">>)
        THEN POk(JFalse, i + 5)
        ELSE IF MatchNumber(s, i) # 0
        THEN POk(JNum(SubSeq(s, i, MatchNumber(s, i) - 1)), MatchNumber(s, i))
        ELSE PFail

\* JSONDecoder.decode: white space, one value, white space, end of text
json_loads(s) ==
    LET r == scan_once(s, SkipWs(s, 1))
    IN  IF r.ok /\ SkipWs(s, r.i) = Len(s) + 1 THEN r ELSE PFail

(***************************************************************************)
(* Lines 160-177: the required fields and the defaults.  A value that is   *)
(* not a dict never comes back: 'field in result' raises TypeError on a    *)
(* number, a bool or None, and on a list or a str either a field is        *)
(* missing or the item assignment / result['title'] raises TypeError,      *)
(* which the outer handler (line 184) turns into None.                     *)
(***************************************************************************)
S_title == <<"t", "i", "t", "l", "e">>
S_content == <<"c", "o", "n", "t", "e", "n", "t">>
S_excerpt == <<"e", "x", "c", "e", "r", "p", "t">>
S_categories == <<"c", "a", "t", "e", "g", "o", "r", "i", "e", "s">>
S_tags == <<"t", "a", "g", "s">>
required_fields == {S_title, S_content, S_excerpt}

HasRequired_any(r) == \E field \in required_fields : HasKey(r, field)

HasRequired(r) == \A field \in required_fields : HasKey(r, field)

Validate(r) ==
    IF r.t # "dict" THEN PyNone
    ELSE IF ~HasRequired(r) THEN PyNone
    ELSE LET r1 == IF ~HasKey(r, S_categories) THEN SetItem(r, S_categories, JArr(<<>>)) ELSE r
         IN  IF ~HasKey(r1, S_tags) THEN SetItem(r1, S_tags, JArr(<<>>)) ELSE r1

\* lines 116-186 on one provider text
Normalize(c) ==
    LET p == json_loads(Scan(CleanFence(c)))
    IN  IF p.ok THEN Validate(p.v) ELSE PyNone

(***************************************************************************)
(* Part II.  Provider texts (what line 107 can read from the provider)     *)
(* and the normalizer as a state machine.                                  *)
(***************************************************************************)
MaxStrLen == 2
\* characters a provider puts in a string value
Alphabet == {"a", "n", LF, TAB, CR, BACKSLASH, QUOTE}
Strings == UNION {[1..n -> Alphabet] : n \in 0..MaxStrLen}

StrLit(cs) == <<QUOTE>> \o cs \o <<QUOTE>>
Member(k, v) == StrLit(k) \o <<":">> \o v
RECURSIVE Join(_)
Join(ms) == IF Len(ms) = 0 THEN <<>>
            ELSE IF Len(ms) = 1 THEN ms[1]
            ELSE ms[1] \o <<",">> \o Join(Tail(ms))
ObjText(ms) == <<"{">> \o Join(ms) \o <<"}">>
ArrText(vs) == <<"[">> \o Join(vs) \o <<"]">>
NullText == <<"n", "u", "l", "l">>

M_title(v) == Member(S_title, v)
M_content == Member(S_content, StrLit(<<"c">>))
M_excerpt == Member(S_excerpt, StrLit(<<"e">>))

\* a whole document whose title holds the characters cs
TitleDocs == {ObjText(<<M_title(StrLit(cs)), M_content, M_excerpt>>) : cs \in Strings}
GoodDoc == ObjText(<<M_title(StrLit(<<"a">>)), M_content, M_excerpt>>)
\* documents that differ in structure, and texts that are no document
ShapeDocs ==
    { GoodDoc,
      ObjText(<<M_content, M_excerpt>>),
      ObjText(<<M_title(StrLit(<<"a">>)), M_excerpt>>),
      ObjText(<<M_title(StrLit(<<"a">>)), M_content>>),
      ObjText(<<>>),
      ObjText(<<M_title(NullText), M_content, M_excerpt>>),
      ObjText(<<M_title(StrLit(<<"a">>)), M_content, Member(S_excerpt, NullText)>>),
      ObjText(<<M_title(StrLit(<<"a">>)), M_content, M_excerpt,
                Member(S_categories, ArrText(<<StrLit(<<"A">>)>>)),
                Member(S_tags, ArrText(<<StrLit(<<"a">>), StrLit(<<"B">>)>>))>>),
      ObjText(<<M_title(StrLit(<<"a">>)), M_content, M_excerpt,
                M_title(StrLit(<<"n">>))>>),
      ArrText(<<>>),
      ArrText(<<StrLit(S_title), StrLit(S_content), StrLit(S_excerpt)>>),
      StrLit(S_title \o <<" ">> \o S_content \o <<" ">> \o S_excerpt),
      NullText,
      <<"5">>,
      <<"t", "r", "u", "e">>,
      <<"S", "o", "r", "r", "y">>,
      <<>>,
      FENCE \o <<LF>> \o GoodDoc \o <<LF>> \o FENCE }

\* a text X on lines of its own between FENCE<tag> and FENCE
Wrap(tag, x) == FENCE \o tag \o <<LF>> \o x \o <<LF>> \o FENCE
FenceTags == {<<>>, JSON_TAG, <<"j", "s">>}
Trails == {<<>>, <<" ">>, <<FF>>}
Leads == {<<>>, <<LF>>}

\* every title with and without a json fence; every shape under every fence,
\* with white space after the document and before the whole text
ProviderTexts ==
    TitleDocs
    \cup {Wrap(JSON_TAG, d) : d \in TitleDocs}
    \cup {l \o d \o t : l \in Leads, d \in ShapeDocs, t \in Trails}
    \cup {l \o Wrap(g, d \o t) : l \in Leads, g \in FenceTags, d \in ShapeDocs, t \in Trails}

\* the connections to GET /mcp/sse, and a connection that was not made yet
Channels == {"c1", "c2", "c3"}
Closed == [pc |-> "closed", connected |-> FALSE, events |-> <<>>]
SQuiet == sse = [c \in Channels |-> Closed]

\* the servers are not running while the normalizer is examined on its own
DQuiet ==
    /\ env_ai_key = FALSE
    /\ ai_generator = PyNone
    /\ task = <<>>
    /\ calls = 0
    /\ wp_categories = <<>>
    /\ wp_tags = <<>>
    /\ wp_posts = <<>>
    /\ wp_media = <<>>
    /\ next_id = 1

KV(k, v) == [k |-> k, v |-> v]
Dict(items) == JObj(items)
\* dict.get(k, default)
DictGet(d, k, default) == IF HasKey(d, k) THEN Get(d, k) ELSE default

\* AIContentGenerator.__init__ (ai_content_generator.py 18-32): the key is a
\* literal of the source, the environment is not read, client is set to True
AIContentGenerator_init(env_key) == Dict(<<KV(<<"c", "l", "i", "e", "n", "t">>, JTrue)>>)
\* is_available, lines 34-36: self.client is not None
is_available(gen) == DictGet(gen, <<"c", "l", "i", "e", "n", "t">>, JNull).t # "null"

\* the three methods of the adapter
AdapterMethods == {"generate_post_content", "generate_simple_content", "improve_content"}
\* how the exchange with the provider can go: the prompt is no str (line 84
\* slices it), requests.post times out, raise_for_status raises, the answer
\* has no choices[0].message.content, that content is null, or it is a text
ExchangeOutcomes == {"prompt_not_str", "timeout", "status", "envelope", "not_str", "text"}
\* what the failing statement raises
Raised(outcome) ==
    CASE outcome = "prompt_not_str" -> "TypeError"
      [] outcome = "timeout" -> "Timeout"
      [] outcome = "status" -> "HTTPError"
      [] outcome = "envelope" -> "KeyError"
      [] outcome = "not_str" -> "TypeError"
\* the texts generate_simple_content and improve_content hand back as they are
PlainTexts == {<<>>, <<"x">>, <<"S", "o", "r", "r", "y">>}

\* an except clause catches the exceptions of its class and of the classes
\* derived from it; every class raised here derives from Exception, and
\* JSONDecodeError from ValueError
\* a variant in which a clause catches its own class only
Catches_exact(clause, exc) == clause = exc

Catches(clause, exc) ==
    \/ clause = exc
    \/ clause = "Exception"
    \/ clause = "ValueError" /\ exc = "JSONDecodeError"
\* the except clauses around a statement, innermost first: lines 158-177 are
\* inside the try of 157 (except json.JSONDecodeError, 179) and the try of 63
\* (except Exception, 184); the rest of each method is inside one try
\* (except Exception: 184, 236, 294)
InnerHandlers == <<"JSONDecodeError", "Exception">>
OuterHandlers == <<"Exception">>
Escapes(exc, handlers) == \A i \in 1..Len(handlers) : ~Catches(handlers[i], exc)

\* a text holds the text sub
InStr(sub, x) == \E i \in 1..(Len(x) - Len(sub) + 1) : SubSeq(x, i, i + Len(sub) - 1) = sub
\* lines 162-175 raise TypeError on a value that is no dict: a value that
\* is no container at the test of 162, a list or str that passes the test at
\* the item assignment of 168 or the subscript of 173
ValidateRaises(r) ==
    \/ r.t \in {"null", "num", "true", "false"}
    \/ r.t = "list" /\ \A f \in required_fields : \E i \in 1..Len(r.a) : r.a[i] = JStr(f)
    \/ r.t = "str" /\ \A f \in required_fields : InStr(f, r.s)

\* a statement raises exc inside the handlers: every handler that catches
\* it returns None (182, 186, 238, 296)
NRaise(exc, handlers) ==
    /\ npc' = "done"
    /\ retval' = PyNone
    /\ escaped' = Escapes(exc, handlers)

NInit ==
    /\ adapter \in AdapterMethods
    /\ exchange = ""
    /\ escaped = FALSE
    /\ content = <<>>
    /\ npc = "request"
    /\ content_clean = <<>>
    /\ idx = 1
    /\ in_string = FALSE
    /\ escape_next = FALSE
    /\ result_chars = <<>>
    /\ result = PyNone
    /\ retval = PyNone
    /\ DQuiet
    /\ SQuiet

\* the method up to the provider's answer: lines 59-110, 203-234, 255-292
NRequest ==
    /\ npc = "request"
    /\ \E outcome \in ExchangeOutcomes :
         /\ outcome = "prompt_not_str" => adapter = "generate_post_content"
         /\ exchange' = outcome
         /\ IF ~is_available(AIContentGenerator_init(FALSE))
            THEN /\ npc' = "done"
                 /\ retval' = PyNone
                 /\ UNCHANGED <<content, escaped>>
            ELSE IF outcome = "text" /\ adapter = "generate_post_content"
            THEN /\ content' \in ProviderTexts
                 /\ npc' = "clean"
                 /\ UNCHANGED <<retval, escaped>>
            ELSE IF outcome = "text"
            THEN /\ content' \in PlainTexts
                 /\ npc' = "done"
                 /\ retval' = JStr(content')
                 /\ UNCHANGED escaped
            ELSE IF outcome = "not_str" /\ adapter = "improve_content"
            THEN /\ npc' = "done"
                 /\ retval' = PyNone
                 /\ UNCHANGED <<content, escaped>>
            ELSE /\ NRaise(Raised(outcome), OuterHandlers)
                 /\ UNCHANGED content
    /\ UNCHANGED <<adapter, content_clean, idx, in_string, escape_next, result_chars, result>>
    /\ UNCHANGED <<dvars, svars>>

\* lines 116-126
NClean ==
    /\ npc = "clean"
    /\ content_clean' = CleanFence(content)
    /\ idx' = 1
    /\ in_string' = FALSE
    /\ escape_next' = FALSE
    /\ result_chars' = <<>>
    /\ npc' = "scan"
    /\ UNCHANGED <<adapter, exchange, escaped, content, result, retval>>
    /\ UNCHANGED <<dvars, svars>>

\* lines 128-153, one iteration
NScanChar ==
    /\ npc = "scan"
    /\ idx <= Len(content_clean)
    /\ LET st == ScanStep([in_string |-> in_string, escape_next |-> escape_next,
                           result_chars |-> result_chars], content_clean[idx])
       IN  /\ in_string' = st.in_string
           /\ escape_next' = st.escape_next
           /\ result_chars' = st.result_chars
    /\ idx' = idx + 1
    /\ UNCHANGED <<adapter, exchange, escaped, content, npc, content_clean, result, retval>>
    /\ UNCHANGED <<dvars, svars>>

\* line 155
NJoin ==
    /\ npc = "scan"
    /\ idx > Len(content_clean)
    /\ content_clean' = result_chars
    /\ npc' = "loads"
    /\ UNCHANGED <<adapter, exchange, escaped, content, idx, in_string, escape_next,
                   result_chars, result, retval>>
    /\ UNCHANGED <<dvars, svars>>

\* line 158, and lines 179-182 when json.loads raises
NLoads ==
    /\ npc = "loads"
    /\ LET p == json_loads(content_clean)
       IN  IF p.ok
           THEN /\ result' = p.v
                /\ npc' = "validate"
                /\ UNCHANGED <<retval, escaped>>
           ELSE /\ NRaise("JSONDecodeError", InnerHandlers)
                /\ UNCHANGED result
    /\ UNCHANGED <<adapter, exchange, content, content_clean, idx, in_string, escape_next,
                   result_chars>>
    /\ UNCHANGED <<dvars, svars>>

\* lines 160-177, and line 184-186 when they raise
NValidate ==
    /\ npc = "validate"
    /\ IF ValidateRaises(result)
       THEN NRaise("TypeError", InnerHandlers)
       ELSE /\ retval' = Validate(result)
            /\ npc' = "done"
            /\ UNCHANGED escaped
    /\ UNCHANGED <<adapter, exchange, content, content_clean, idx, in_string, escape_next,
                   result_chars, result>>
    /\ UNCHANGED <<dvars, svars>>

NNext == NRequest \/ NClean \/ NScanChar \/ NJoin \/ NLoads \/ NValidate

vars == <<nvars, dvars, svars>>
SpecNorm == NInit /\ [][NNext]_vars

(***************************************************************************)
(* Claims about the normalizer, checked under SpecNorm.                    *)
(***************************************************************************)
\* the number of backslashes directly before position i
BackslashRun(c, i) ==
    CHOOSE k \in 0..(i - 1) :
        /\ \A j \in (i - k)..(i - 1) : c[j] = BACKSLASH
        /\ (i - k - 1 = 0 \/ c[i - k - 1] # BACKSLASH)
\* position i follows a backslash that escapes it
Escaped(c, i) == BackslashRun(c, i) % 2 = 1
\* position i lies after an odd number of string delimiters
InsideString(c, i) ==
    Cardinality({j \in 1..(i - 1) : c[j] = QUOTE /\ ~Escaped(c, j)}) % 2 = 1
StringNewlines(c) == {i \in 1..Len(c) : c[i] = LF /\ InsideString(c, i)}
\* the text with every newline inside a string written as backslash, n
EscapeStringNewlines(c) ==
    LET nl == StringNewlines(c)
        pos(i) == i + Cardinality({j \in nl : j < i})
    IN  [k \in 1..(Len(c) + Cardinality(nl)) |->
            IF \E i \in 1..Len(c) : pos(i) = k
            THEN LET i == CHOOSE i \in 1..Len(c) : pos(i) = k
                 IN  IF i \in nl THEN BACKSLASH ELSE c[i]
            ELSE "n"]

C5_MissingFieldFails ==
    (npc = "done" /\ result # PyNone
        /\ (result.t # "dict" \/ \E f \in required_fields : ~HasKey(result, f)))
        => retval = PyNone

C5_Witness ==
    /\ npc = "done"
    /\ result.t = "dict"
    /\ HasKey(result, S_title) /\ HasKey(result, S_content) /\ ~HasKey(result, S_excerpt)
    /\ retval = PyNone

\* C6: every returned document holds title, content and excerpt, none of them null.
C6_RequiredNonNull ==
    (npc = "done" /\ retval # PyNone)
        => \A f \in required_fields : HasKey(retval, f) /\ Get(retval, f) # JNull

\* the end of the first line of a text that starts with a fence
FenceLineEnd(c) ==
    IF \A i \in 4..Len(c) : c[i] # LF THEN Len(c) + 1
    ELSE CHOOSE i \in 4..Len(c) : c[i] = LF /\ \A j \in 4..(i - 1) : c[j] # LF
\* a text between a fence line FENCE<tag> and a closing fence line
IsFenced(c) ==
    /\ StartsWith(c, FENCE)
    /\ EndsWith(c, <<LF>> \o FENCE)
    /\ FenceLineEnd(c) <= Len(c) - 4
    /\ \A i \in 4..(FenceLineEnd(c) - 1) : c[i] \notin PySpace \cup {BACKTICK}
FenceTag(c) == SubSeq(c, 4, FenceLineEnd(c) - 1)
Unwrapped(c) == SubSeq(c, FenceLineEnd(c) + 1, Len(c) - 4)

\* C7 as stated: a text wrapped in a fence with any tag normalizes to the
\* document of the unwrapped text.
C7_AsStated ==
    (npc = "done" /\ IsFenced(content)) => retval = Normalize(Unwrapped(content))

\* C7 amended: a text wrapped in a fence with no tag or the tag json
\* normalizes to the document of the unwrapped text, when that text does not
\* itself start with a fence and ends in no white space that JSON rejects.
C7_FenceStripped ==
    (npc = "done" /\ IsFenced(content)
        /\ FenceTag(content) \in {<<>>, JSON_TAG}
        /\ ~StartsWith(Strip(Unwrapped(content)), FENCE)
        /\ LastNot(Unwrapped(content), PySpace) = LastNot(Unwrapped(content), JsonWhitespace))
        => retval = Normalize(Unwrapped(content))

C7_Witness ==
    /\ npc = "done"
    /\ IsFenced(content)
    /\ FenceTag(content) = JSON_TAG
    /\ Unwrapped(content) = GoodDoc \o <<" ">>
    /\ retval # PyNone
    /\ retval = Normalize(GoodDoc)

(***************************************************************************)
(* Part III.  The content service, WordPressAPI and the tool dispatchers.  *)
(*                                                                         *)
(* Python values are the JSON values of Part I: a str is JStr(chars), an   *)
(* int is JNum(digits), None is JNull, a list is JArr and a dict is JObj.  *)
(* PyNone stands for "nothing there" (no argument passed, no request       *)
(* part sent, generate_post_content returning None).                       *)
(***************************************************************************)
S_id == <<"i", "d">>
S_name == <<"n", "a", "m", "e">>
S_link == <<"l", "i", "n", "k">>
S_status == <<"s", "t", "a", "t", "u", "s">>
S_post_id == <<"p", "o", "s", "t", "_", "i", "d">>
S_force == <<"f", "o", "r", "c", "e">>
S_per_page == <<"p", "e", "r", "_", "p", "a", "g", "e">>
S_prompt == <<"p", "r", "o", "m", "p", "t">>
S_description == <<"d", "e", "s", "c", "r", "i", "p", "t", "i", "o", "n">>
S_slug == <<"s", "l", "u", "g">>
S_true == <<"t", "r", "u", "e">>
S_false == <<"f", "a", "l", "s", "e">>
S_draft == <<"d", "r", "a", "f", "t">>
S_publish == <<"p", "u", "b", "l", "i", "s", "h">>
S_trash == <<"t", "r", "a", "s", "h">>
S_ai_generated == <<"a", "i", "_", "g", "e", "n", "e", "r", "a", "t", "e", "d">>
S_source == <<"s", "o", "u", "r", "c", "e">>
S_Groq == <<"G", "r", "o", "q">>
S_ai_categories == <<"a", "i", "_", "c", "a", "t", "e", "g", "o", "r", "i", "e", "s">>
S_ai_tags == <<"a", "i", "_", "t", "a", "g", "s">>
S_success == <<"s", "u", "c", "c", "e", "s", "s">>

S_search == <<"s", "e", "a", "r", "c", "h">>
S_page == <<"p", "a", "g", "e">>
S_any == <<"a", "n", "y">>
S_file_path == <<"f", "i", "l", "e", "_", "p", "a", "t", "h">>
S_alt_text == <<"a", "l", "t", "_", "t", "e", "x", "t">>
S_ai_improved == <<"a", "i", "_", "i", "m", "p", "r", "o", "v", "e", "d">>

\* the dict without key k (dict.pop's effect on the dict)
DictPop(d, k) == JObj(SelectSeq(d.o, LAMBDA it : it.k # k))
Keys(d) == {d.o[n].k : n \in 1..Len(d.o)}

\* str(n) for the small non-negative integers of the model
IntStr(n) ==
    IF n < 10 THEN <<ToString(n)>>
    ELSE IF n < 100 THEN <<ToString(n \div 10), ToString(n % 10)>>
    ELSE <<ToString(n \div 100), ToString((n \div 10) % 10), ToString(n % 10)>>
JInt(n) == JNum(IntStr(n))
\* the literal 100 of per_page=100
JInt100 == JNum(<<"1", "0", "0">>)
DigitVal(c) == CHOOSE n \in 0..9 : ToString(n) = c
RECURSIVE IntOf(_)
IntOf(ds) == IF Len(ds) = 0 THEN 0
             ELSE IntOf(SubSeq(ds, 1, Len(ds) - 1)) * 10 + DigitVal(ds[Len(ds)])

\* Python truth value
Truthy(v) ==
    CASE v.t \in {"None", "null", "false"} -> FALSE
      [] v.t = "true" -> TRUE
      [] v.t = "str"  -> Len(v.s) > 0
      [] v.t = "num"  -> IntOf(v.s) # 0
      [] v.t = "list" -> Len(v.a) > 0
      [] v.t = "dict" -> Len(v.o) > 0

\* what a for loop iterates over
Iterable(v) == v.t \in {"list", "str", "dict"}
Iter(v) ==
    CASE v.t = "list" -> v.a
      [] v.t = "str"  -> [i \in 1..Len(v.s) |-> JStr(<<v.s[i]>>)]
      [] v.t = "dict" -> [i \in 1..Len(v.o) |-> JStr(v.o[i].k)]
      [] OTHER -> <<>>

\* str.lower() on the letters of the model
UpperLetters == <<"A", "B", "C", "D", "E", "F", "G", "H", "I", "J", "K", "L", "M",
                  "N", "O", "P", "Q", "R", "S", "T", "U", "V", "W", "X", "Y", "Z">>
LowerLetters == <<"a", "b", "c", "d", "e", "f", "g", "h", "i", "j", "k", "l", "m",
                  "n", "o", "p", "q", "r", "s", "t", "u", "v", "w", "x", "y", "z">>
LowerChar(c) ==
    IF \E i \in 1..Len(UpperLetters) : UpperLetters[i] = c
    THEN LowerLetters[CHOOSE i \in 1..Len(UpperLetters) : UpperLetters[i] = c]
    ELSE c
Lower(s) == [i \in 1..Len(s) |-> LowerChar(s[i])]

(***************************************************************************)
(* WordPressAPI (server.py 36-175): each method builds one request.        *)
(***************************************************************************)
\* _request, lines 54-72: what goes on the wire.  GET sends params, POST and
\* PUT send the JSON body, DELETE sends neither.  content is a raw body, which
\* only upload_media sends.
WP_request(method, endpoint, data, params) ==
    [method   |-> method,
     endpoint |-> endpoint,
     params   |-> IF method = "GET" THEN params ELSE PyNone,
     json     |-> IF method \in {"POST", "PUT"} THEN data ELSE PyNone,
     content  |-> PyNone]

\* an endpoint is its collection and, for one object, the id formatted into it
Endpoint(collection, id) == [collection |-> collection, id |-> id]

list_categories(per_page) ==
    WP_request("GET", Endpoint("categories", JNull), PyNone, Dict(<<KV(S_per_page, per_page)>>))

list_posts(per_page, page, status) ==
    WP_request("GET", Endpoint("posts", JNull), PyNone,
               Dict(<<KV(S_per_page, per_page), KV(S_page, page), KV(S_status, status)>>))

search_posts(search, per_page) ==
    WP_request("GET", Endpoint("posts", JNull), PyNone,
               Dict(<<KV(S_search, search), KV(S_per_page, per_page)>>))

\* a variant that creates the tag it was asked to look for
search_tags_creates(search, per_page) ==
    WP_request("POST", Endpoint("tags", JNull), Dict(<<KV(S_name, search)>>), PyNone)

search_tags(search, per_page) ==
    WP_request("GET", Endpoint("tags", JNull), PyNone,
               Dict(<<KV(S_search, search), KV(S_per_page, per_page)>>))

list_tags(per_page) ==
    WP_request("GET", Endpoint("tags", JNull), PyNone, Dict(<<KV(S_per_page, per_page)>>))

\* a variant that sends the categories and tags keys whatever their value
create_post_keysAlways(title, content_, status, categories, tags) ==
    WP_request("POST", Endpoint("posts", JNull),
               Dict(<<KV(S_title, title), KV(S_content, content_), KV(S_status, status),
                      KV(S_categories, categories), KV(S_tags, tags)>>), PyNone)

create_post(title, content_, status, categories, tags) ==
    LET d0 == Dict(<<KV(S_title, title), KV(S_content, content_), KV(S_status, status)>>)
        d1 == IF Truthy(categories) THEN SetItem(d0, S_categories, categories) ELSE d0
        d2 == IF Truthy(tags) THEN SetItem(d1, S_tags, tags) ELSE d1
    IN  WP_request("POST", Endpoint("posts", JNull), d2, PyNone)

update_post(post_id, kwargs) ==
    WP_request("PUT", Endpoint("posts", post_id), kwargs, PyNone)

delete_post(post_id, force) ==
    WP_request("DELETE", Endpoint("posts", post_id), PyNone,
               Dict(<<KV(S_force, JStr(IF Truthy(force) THEN S_true ELSE S_false))>>))

create_tag(name, description, slug) ==
    LET d0 == Dict(<<KV(S_name, name)>>)
        d1 == IF Truthy(description) THEN SetItem(d0, S_description, description) ELSE d0
        d2 == IF Truthy(slug) THEN SetItem(d1, S_slug, slug) ELSE d1
    IN  WP_request("POST", Endpoint("tags", JNull), d2, PyNone)

(***************************************************************************)
(* The content service (WordPress REST API under WP_URL/wp-json/wp/v2).    *)
(* It is the environment of the program: any request may fail (network,    *)
(* HTTP status), and a request it accepts is answered as below.            *)
(***************************************************************************)
Term(id, name) == [id |-> id, name |-> name]
Post(id, status) == [id |-> id, status |-> status]
TermJson(term) == Dict(<<KV(S_id, JInt(term.id)), KV(S_name, JStr(term.name))>>)
PostJson(post) ==
    Dict(<<KV(S_id, JInt(post.id)), KV(S_link, JStr(<<"/">> \o IntStr(post.id))),
           KV(S_status, JStr(post.status))>>)

Min(a, b) == IF a <= b THEN a ELSE b
\* the name holds the searched text, ignoring case (no search: every name)
Searched(name, params) ==
    LET q == DictGet(params, S_search, JNull)
    IN  q.t = "str" =>
            \E i \in 1..(Len(name) - Len(q.s) + 1) :
                Lower(SubSeq(name, i, i + Len(q.s) - 1)) = Lower(q.s)
\* the page of a collection asked for: at most per_page objects, page 1
\* unless the request says otherwise
PageOf(objs, params) ==
    LET pp == DictGet(params, S_per_page, JInt(10))
        pg == DictGet(params, S_page, JInt(1))
        n  == IF pp.t = "num" THEN IntOf(pp.s) ELSE 10
        p  == IF pg.t = "num" THEN IntOf(pg.s) ELSE 1
    IN  SubSeq(objs, (p - 1) * n + 1, Min(p * n, Len(objs)))
Listing(terms, params) ==
    LET found == SelectSeq(terms, LAMBDA x : Searched(x.name, params))
        page  == PageOf(found, params)
    IN  JArr([i \in 1..Len(page) |-> TermJson(page[i])])
PostListing(posts, params) ==
    LET page == PageOf(posts, params)
    IN  JArr([i \in 1..Len(page) |-> PostJson(page[i])])

\* a term of the same name up to case exists (the service refuses a duplicate)
TermExists(terms, name) == \E i \in 1..Len(terms) : Lower(terms[i].name) = Lower(name)
PostAt(id) == {i \in 1..Len(wp_posts) : JInt(wp_posts[i].id) = id}

Outcome(ok, resp, tags, posts, nid) ==
    [ok |-> ok, resp |-> resp, tags |-> tags, posts |-> posts, media |-> wp_media,
     next_id |-> nid]
MediaJson(id) == Dict(<<KV(S_id, JInt(id)), KV(S_link, JStr(<<"/">> \o IntStr(id)))>>)
Refused == Outcome(FALSE, PyNone, wp_tags, wp_posts, next_id)

\* the answer to a request the service accepts, with the state it leaves
Accepted(req) ==
    LET c == req.endpoint.collection
        id == req.endpoint.id
    IN  CASE req.method = "GET" /\ c = "categories" ->
               {Outcome(TRUE, Listing(wp_categories, req.params), wp_tags, wp_posts, next_id)}
          [] req.method = "GET" /\ c = "tags" ->
               {Outcome(TRUE, Listing(wp_tags, req.params), wp_tags, wp_posts, next_id)}
          [] req.method = "GET" /\ c = "posts" ->
               {Outcome(TRUE, PostListing(wp_posts, req.params), wp_tags, wp_posts, next_id)}
          [] req.method = "POST" /\ c = "tags" ->
               LET name == DictGet(req.json, S_name, JNull)
               IN  IF name.t = "str" /\ Len(name.s) > 0 /\ ~TermExists(wp_tags, name.s)
                   THEN {Outcome(TRUE, TermJson(Term(next_id, name.s)),
                                 Append(wp_tags, Term(next_id, name.s)), wp_posts, next_id + 1)}
                   ELSE {}
          [] req.method = "POST" /\ c = "posts" ->
               LET st == DictGet(req.json, S_status, JNull)
                   p  == Post(next_id, IF st.t = "str" THEN st.s ELSE S_draft)
               IN  {Outcome(TRUE, PostJson(p), wp_tags, Append(wp_posts, p), next_id + 1)}
          [] req.method = "PUT" /\ c = "posts" ->
               {LET st == DictGet(req.json, S_status, JNull)
                    p  == Post(wp_posts[i].id, IF st.t = "str" THEN st.s ELSE wp_posts[i].status)
                IN  Outcome(TRUE, PostJson(p), wp_tags, [wp_posts EXCEPT ![i] = p], next_id)
                : i \in PostAt(id)}
          [] req.method = "DELETE" /\ c = "posts" ->
               {IF req.params.t = "dict" /\ DictGet(req.params, S_force, JNull) = JStr(S_true)
                THEN Outcome(TRUE, PostJson(wp_posts[i]), wp_tags,
                             SelectSeq(wp_posts, LAMBDA p : p.id # wp_posts[i].id), next_id)
                ELSE LET p == Post(wp_posts[i].id, S_trash)
                     IN  Outcome(TRUE, PostJson(p), wp_tags, [wp_posts EXCEPT ![i] = p], next_id)
                : i \in PostAt(id)}
          [] req.method = "POST" /\ c = "media" ->
               {[Outcome(TRUE, MediaJson(next_id), wp_tags, wp_posts, next_id + 1)
                    EXCEPT !.media = Append(wp_media, next_id)]}
          [] req.method = "PUT" /\ c = "media" ->
               {Outcome(TRUE, MediaJson(wp_media[i]), wp_tags, wp_posts, next_id)
                : i \in {j \in 1..Len(wp_media) : JInt(wp_media[j]) = id}}
          [] OTHER -> {}

RemoteOutcomes(req) == {Refused} \cup Accepted(req)

(***************************************************************************)
(* The generator object and the handlers' responses.                       *)
(***************************************************************************)

INTERNAL_ERROR == 32603
METHOD_NOT_FOUND == 32601
MSG_method == "Método no soportado: "
MSG_unavailable_stdio ==
    "Generador de IA no disponible. Configure ANTHROPIC_API_KEY en las variables de entorno."
MSG_unavailable_rpc == "Generador de IA no disponible."
MSG_unavailable_rest == "Generador de IA no disponible. Configure ANTHROPIC_API_KEY"
MSG_generation_stdio == "Error generando contenido con IA"
MSG_generation_rpc == "Error generando contenido con IA."
MSG_unknown_tool == "Herramienta desconocida: "
MSG_create_failed == "Error creando post en WordPress: "
MSG_http == "Error HTTP: "
MSG_rest_prefix == "Error: "
MSG_improve_failed == "Error mejorando post: "
MSG_not_found == "no encontrado"
MSG_improve_generation_stdio == "Error mejorando contenido con IA"
MSG_improve_generation_rest == "Error mejorando contenido"
MSG_generation_rest == "Error generando contenido"

\* what a handler hands back.  kind: "none" (still running), "result" (the
\* tool's value), "tool_error" (stdio: a text content {"error": ...}),
\* "rpc_error" (a JSON-RPC error envelope), "http_error" (an HTTP status).
\* message is prefix followed by the text of the exception, if any.
\* tools is the set of tool names of a tool listing.
Response(kind, code, prefix, message, value) ==
    [kind |-> kind, code |-> code, prefix |-> prefix, message |-> message, value |-> value,
     tools |-> {}]
NoResponse == Response("none", 0, "", "", PyNone)
Result(v) == Response("result", 0, "", "", v)

\* a variant that hands the exception's text back as the call's result
Uncaught_asResult(transport, message) == Response("result", 0, "", message, PyNone)

\* an exception that reaches the handler's outermost except clause:
\* server.py 795-799, mcp_http_wrapper.py 525-534, http_server.py 215-216
Uncaught(transport, message) ==
    CASE transport = "stdio"   -> Response("tool_error", 0, "", message, PyNone)
      [] transport = "jsonrpc" -> Response("rpc_error", 0 - INTERNAL_ERROR, "", message, PyNone)
      [] transport = "rest"    -> Response("http_error", 500, MSG_rest_prefix, message, PyNone)

\* an exception raised while resolving terms or creating the post:
\* stdio catches it at 682-690 and reports the generated document with it
RaisedInPublish(transport, message, ai_content) ==
    IF transport = "stdio"
    THEN Response("tool_error", 0, MSG_create_failed, message, ai_content)
    ELSE Uncaught(transport, message)

\* the generator is missing or not available: server.py 597-603,
\* mcp_http_wrapper.py 425-426 (raised, so caught at 525), http_server.py 141-145
Unavailable(transport) ==
    CASE transport = "stdio"   -> Response("tool_error", 0, "", MSG_unavailable_stdio, PyNone)
      [] transport = "jsonrpc" -> Uncaught("jsonrpc", MSG_unavailable_rpc)
      [] transport = "rest"    -> Response("http_error", 503, "", MSG_unavailable_rest, PyNone)

\* generate_post_content returned nothing: server.py 615-619,
\* mcp_http_wrapper.py 437-438, http_server.py 159-160 (caught at 215)
GenerationFailed(transport) ==
    CASE transport = "stdio"   -> Response("tool_error", 0, "", MSG_generation_stdio, PyNone)
      [] transport = "jsonrpc" -> Uncaught("jsonrpc", MSG_generation_rpc)
      [] transport = "rest"    -> Uncaught("rest", MSG_generation_stdio)

\* the tool is none of the dispatcher's: server.py 784-788, mcp_http_wrapper.py
\* 503-504; the text is "Herramienta desconocida: " followed by the name
\* a variant whose error text does not hold the name
UnknownTool_unnamed(transport, name) ==
    IF transport = "stdio"
    THEN Response("tool_error", 0, MSG_unknown_tool, "", PyNone)
    ELSE [Uncaught(transport, "") EXCEPT !.prefix = MSG_unknown_tool]

UnknownTool(transport, name) ==
    IF transport = "stdio"
    THEN Response("tool_error", 0, MSG_unknown_tool, name, PyNone)
    ELSE [Uncaught(transport, name) EXCEPT !.prefix = MSG_unknown_tool]

\* a required argument is read and is not there: arguments['field'] raises
\* KeyError, whose text is the quoted field name, and the outermost except
\* clause reports it (server.py 795-799, mcp_http_wrapper.py 525-534)
\* a variant whose error does not hold the field
MissingArgument_unnamed(transport, field) == Uncaught(transport, "KeyError")

MissingArgument(transport, field) ==
    [Uncaught(transport, "KeyError") EXCEPT !.value = JStr(field)]

\* the arguments each tool's input schema marks as required:
\* server.py 261, 294, 330, 349, 371, 404, 426, 464, 483, 514
RequiredArguments(name) ==
    CASE name \in {"search_posts", "search_tags"} -> {S_search}
      [] name = "create_post" -> {S_title, S_content}
      [] name \in {"update_post", "delete_post", "improve_post_with_ai"} -> {S_post_id}
      [] name = "upload_media" -> {S_file_path}
      [] name = "create_tag" -> {S_name}
      [] name \in {"generate_post_with_ai", "generate_content_from_prompt"} -> {S_prompt}
      [] OTHER -> {}

(***************************************************************************)
(* One handler invocation.                                                 *)
(***************************************************************************)
AllTasks == {"t1", "t2"}

\* the value of the JSON-RPC endpoint's variable body (mcp_http_wrapper.py
\* 155): Unbound when request.json() raised before the assignment.  For a
\* well-formed request the members method and params are the task's method,
\* name and arguments, and body keeps the member the envelope reads, id.
Unbound == JVal("unbound", <<>>, <<>>, <<>>)
RpcBody == Dict(<<KV(S_id, JNum(<<"1">>))>>)
\* an exception that leaves the endpoint: raised in the except clause itself
\* (mcp_http_wrapper.py 529), answered by the framework with status 500
Unhandled(exc) == Response("unhandled", 500, "", exc, PyNone)

Idle ==
    [pc |-> "idle", transport |-> "", method |-> "", name |-> "", arguments |-> Dict(<<>>),
     ai_content |-> PyNone, ci |-> 1, ti |-> 1, category_ids |-> <<>>, tag_ids |-> <<>>,
     provider_calls |-> 0, provider |-> "", log |-> <<>>, response |-> NoResponse,
     body |-> PyNone]

\* the handler sends req and waits for the answer at position pc
Issue(a, req, pc) ==
    [a EXCEPT !.log = Append(@, [req |-> req, outcome |-> "pending", resp |-> PyNone]),
              !.pc = pc]
\* the answer to the request the handler waits for
Answered(a, out) ==
    [a EXCEPT !.log[Len(a.log)].outcome = IF out.ok THEN "ok" ELSE "failed",
              !.log[Len(a.log)].resp = out.resp]
Finish(a, resp) == [a EXCEPT !.pc = "done", !.response = resp]
LastRequest(a) == a.log[Len(a.log)].req

(***************************************************************************)
(* The tools that make one request: server.py 532-592 (stdio) and          *)
(* mcp_http_wrapper.py 358-420 (JSON-RPC).                                 *)
(***************************************************************************)
KeyError(field) == [raises |-> TRUE, field |-> field, req |-> WP_request("", Endpoint("", JNull), PyNone, PyNone)]
Sends(req) == [raises |-> FALSE, field |-> <<>>, req |-> req]
\* the tool listings: server.py 203-517 (list_tools) and
\* mcp_http_wrapper.py 186-327 (tools/list)
ListedTools(transport) ==
    IF transport = "stdio"
    THEN {"list_categories", "list_posts", "search_posts", "create_post", "update_post",
          "delete_post", "upload_media", "list_tags", "search_tags", "create_tag",
          "generate_post_with_ai", "improve_post_with_ai", "generate_content_from_prompt"}
    ELSE {"list_categories", "list_posts", "search_posts", "create_post", "update_post",
          "delete_post", "upload_media", "list_tags", "search_tags", "create_tag",
          "generate_post_with_ai"}

\* a variant of the router without the branch for create_tag
RoutedTools_short(transport) ==
    {"list_categories", "list_posts", "search_posts", "create_post", "update_post",
     "delete_post", "upload_media", "list_tags", "search_tags", "generate_post_with_ai"}

\* the names that have a branch in the router: server.py 532-782 (call_tool)
\* and mcp_http_wrapper.py 358-501 (tools/call)
RoutedTools(transport) ==
    {"list_categories", "list_posts", "search_posts", "create_post", "update_post",
     "delete_post", "upload_media", "list_tags", "search_tags", "create_tag",
     "generate_post_with_ai"}
    \cup IF transport = "stdio"
         THEN {"improve_post_with_ai", "generate_content_from_prompt"}
         ELSE {}

SimpleTools == {"list_categories", "list_posts", "search_posts", "create_post",
                "update_post", "delete_post", "list_tags", "search_tags", "create_tag"}

\* update_post's keyword arguments: stdio passes what is left of arguments
\* after the pop (560-561); JSON-RPC passes the five fields, each
\* arguments.get(...) (385-390)
UpdateKwargs(transport, arguments) ==
    IF transport = "stdio"
    THEN DictPop(arguments, S_post_id)
    ELSE Dict(<<KV(S_title, DictGet(arguments, S_title, JNull)),
                KV(S_content, DictGet(arguments, S_content, JNull)),
                KV(S_status, DictGet(arguments, S_status, JNull)),
                KV(S_categories, DictGet(arguments, S_categories, JNull)),
                KV(S_tags, DictGet(arguments, S_tags, JNull))>>)

ToolRequest(transport, name, arguments) ==
    CASE name = "list_categories" ->
           Sends(list_categories(DictGet(arguments, S_per_page, JInt100)))
      [] name = "list_tags" ->
           Sends(list_tags(DictGet(arguments, S_per_page, JInt100)))
      [] name = "list_posts" ->
           Sends(list_posts(DictGet(arguments, S_per_page, JInt(10)),
                            DictGet(arguments, S_page, JInt(1)),
                            DictGet(arguments, S_status, JStr(S_any))))
      [] name = "search_posts" ->
           IF ~HasKey(arguments, S_search) THEN KeyError(S_search)
           ELSE Sends(search_posts(Get(arguments, S_search),
                                   DictGet(arguments, S_per_page, JInt(10))))
      [] name = "search_tags" ->
           IF ~HasKey(arguments, S_search) THEN KeyError(S_search)
           ELSE Sends(search_tags(Get(arguments, S_search),
                                  DictGet(arguments, S_per_page, JInt(10))))
      [] name = "create_post" ->
           IF ~HasKey(arguments, S_title) THEN KeyError(S_title)
           ELSE IF ~HasKey(arguments, S_content) THEN KeyError(S_content)
           ELSE Sends(create_post(Get(arguments, S_title), Get(arguments, S_content),
                                  DictGet(arguments, S_status, JStr(S_draft)),
                                  DictGet(arguments, S_categories, JNull),
                                  DictGet(arguments, S_tags, JNull)))
      [] name = "update_post" ->
           IF ~HasKey(arguments, S_post_id) THEN KeyError(S_post_id)
           ELSE Sends(update_post(Get(arguments, S_post_id), UpdateKwargs(transport, arguments)))
      [] name = "delete_post" ->
           IF ~HasKey(arguments, S_post_id) THEN KeyError(S_post_id)
           ELSE Sends(delete_post(Get(arguments, S_post_id),
                                  DictGet(arguments, S_force, JFalse)))
      [] name = "create_tag" ->
           IF ~HasKey(arguments, S_name) THEN KeyError(S_name)
           ELSE Sends(create_tag(Get(arguments, S_name),
                                 DictGet(arguments, S_description, JNull),
                                 DictGet(arguments, S_slug, JNull)))

(***************************************************************************)
(* generate_post_with_ai after the document is there: server.py 621-690,   *)
(* mcp_http_wrapper.py 440-501, http_server.py 162-213.  Each operator     *)
(* runs the handler from one await to the next.                            *)
(***************************************************************************)
\* the first listed term whose name equals the wanted name up to case
\* (server.py 630-634, 651-655); 0 when the loop ends without a break
FirstMatch_exact(listing, name) ==
    LET hits == {i \in 1..Len(listing) : DictGet(listing[i], S_name, JStr(<<>>)).s = name.s}
    IN  IF hits = {} THEN 0 ELSE CHOOSE i \in hits : \A j \in hits : i <= j

FirstMatch(listing, name) ==
    LET hits == {i \in 1..Len(listing) :
                    Lower(DictGet(listing[i], S_name, JStr(<<>>)).s) = Lower(name.s)}
    IN  IF hits = {} THEN 0 ELSE CHOOSE i \in hits : \A j \in hits : i <= j

\* name.lower() raises for a name that is no str, once there is a term to compare with
CompareRaises(listing, name) == Len(listing) > 0 /\ name.t # "str"

IdsOrNone(ids) == IF Len(ids) > 0 THEN JArr(ids) ELSE JNull

\* server.py 666-672: the post is created with the ids collected
Publish(a) ==
    Issue(a, create_post(Get(a.ai_content, S_title), Get(a.ai_content, S_content),
                         DictGet(a.arguments, S_status, JStr(S_draft)),
                         IdsOrNone(a.category_ids), IdsOrNone(a.tag_ids)),
          "create_post")

\* the head of the tag loop, server.py 646-649
TagLoop(a) ==
    LET names == DictGet(a.ai_content, S_tags, JNull)
    IN  IF ~Truthy(names) THEN Publish(a)
        ELSE IF ~Iterable(names)
             THEN Finish(a, RaisedInPublish(a.transport, "TypeError", a.ai_content))
        ELSE IF a.ti <= Len(Iter(names)) THEN Issue(a, list_tags(JInt100), "list_tags")
        ELSE Publish(a)

\* the head of the category loop, server.py 625-628
CategoryLoop(a) ==
    LET names == DictGet(a.ai_content, S_categories, JNull)
    IN  IF ~Truthy(names) THEN TagLoop(a)
        ELSE IF ~Iterable(names)
             THEN Finish(a, RaisedInPublish(a.transport, "TypeError", a.ai_content))
        ELSE IF a.ci <= Len(Iter(names)) THEN Issue(a, list_categories(JInt100), "list_categories")
        ELSE TagLoop(a)

\* a variant that creates the category it did not find
AfterListCategories_creates(a, out) ==
    IF ~out.ok THEN Finish(a, RaisedInPublish(a.transport, MSG_http, a.ai_content))
    ELSE LET cat_name == Iter(Get(a.ai_content, S_categories))[a.ci]
             m == FirstMatch(out.resp.a, cat_name)
         IN  IF m > 0
             THEN CategoryLoop([a EXCEPT !.category_ids = Append(@, Get(out.resp.a[m], S_id)),
                                         !.ci = @ + 1])
             ELSE Issue([a EXCEPT !.ci = @ + 1],
                        WP_request("POST", Endpoint("categories", JNull),
                                   Dict(<<KV(S_name, cat_name)>>), PyNone),
                        "create_tag")

\* server.py 628-642: the listing came back for category number ci
AfterListCategories(a, out) ==
    IF ~out.ok THEN Finish(a, RaisedInPublish(a.transport, MSG_http, a.ai_content))
    ELSE LET cat_name == Iter(Get(a.ai_content, S_categories))[a.ci]
             cats == out.resp.a
             m == FirstMatch(cats, cat_name)
         IN  IF CompareRaises(cats, cat_name)
             THEN Finish(a, RaisedInPublish(a.transport, "AttributeError", a.ai_content))
             ELSE CategoryLoop([a EXCEPT !.category_ids =
                                             IF m > 0 THEN Append(@, Get(cats[m], S_id)) ELSE @,
                                         !.ci = @ + 1])

\* server.py 649-660: the listing came back for tag number ti
AfterListTags(a, out) ==
    IF ~out.ok THEN Finish(a, RaisedInPublish(a.transport, MSG_http, a.ai_content))
    ELSE LET tag_name == Iter(Get(a.ai_content, S_tags))[a.ti]
             tags == out.resp.a
             m == FirstMatch(tags, tag_name)
         IN  IF CompareRaises(tags, tag_name)
             THEN Finish(a, RaisedInPublish(a.transport, "AttributeError", a.ai_content))
             ELSE IF m > 0
             THEN TagLoop([a EXCEPT !.tag_ids = Append(@, Get(tags[m], S_id)), !.ti = @ + 1])
             ELSE Issue(a, create_tag(tag_name, JNull, JNull), "create_tag")

\* a variant in which a failed creation is not swallowed
AfterCreateTag_raises(a, out) ==
    IF out.ok /\ HasKey(out.resp, S_id)
    THEN TagLoop([a EXCEPT !.tag_ids = Append(@, Get(out.resp, S_id)), !.ti = @ + 1])
    ELSE Finish(a, RaisedInPublish(a.transport, MSG_http, a.ai_content))

\* server.py 659-663: create_tag came back; any exception is passed over
AfterCreateTag(a, out) ==
    IF out.ok /\ HasKey(out.resp, S_id)
    THEN TagLoop([a EXCEPT !.tag_ids = Append(@, Get(out.resp, S_id)), !.ti = @ + 1])
    ELSE TagLoop([a EXCEPT !.ti = @ + 1])

\* what the call returns once the post exists: server.py 675-680,
\* mcp_http_wrapper.py 497-501, http_server.py 203-213
Annotated(a, post_result) ==
    LET ai == a.ai_content
        r1 == SetItem(post_result, S_ai_generated, JTrue)
        r2 == IF a.transport = "jsonrpc" THEN SetItem(r1, S_source, JStr(S_Groq)) ELSE r1
        r3 == SetItem(r2, S_ai_categories, DictGet(ai, S_categories, JArr(<<>>)))
        r4 == SetItem(r3, S_ai_tags, DictGet(ai, S_tags, JArr(<<>>)))
        r5 == SetItem(r4, S_excerpt, DictGet(ai, S_excerpt, JStr(<<>>)))
    IN  IF a.transport = "rest"
        THEN Dict(<<KV(S_success, JTrue),
                    KV(S_post_id, DictGet(post_result, S_id, JNull)),
                    KV(S_title, JStr(<<"N", "/", "A">>)),
                    KV(S_link, DictGet(post_result, S_link, JNull)),
                    KV(S_status, DictGet(post_result, S_status, JNull)),
                    KV(S_ai_generated, JTrue),
                    KV(S_ai_categories, DictGet(ai, S_categories, JArr(<<>>))),
                    KV(S_ai_tags, DictGet(ai, S_tags, JArr(<<>>))),
                    KV(S_excerpt, DictGet(ai, S_excerpt, JStr(<<>>)))>>)
        ELSE r5

\* a variant that sends the post once more when its creation failed
AfterCreatePost_retries(a, out) ==
    IF out.ok THEN Finish(a, Result(Annotated(a, out.resp)))
    ELSE IF Cardinality({i \in 1..Len(a.log) : a.log[i].req.method = "POST"
                                               /\ a.log[i].req.endpoint.collection = "posts"}) < 2
    THEN Publish(a)
    ELSE Finish(a, RaisedInPublish(a.transport, MSG_http, a.ai_content))

\* a variant that reports the call as done although the post was not created
AfterCreatePost_swallows(a, out) ==
    Finish(a, Result(Annotated(a, IF out.ok THEN out.resp ELSE Dict(<<>>))))

AfterCreatePost(a, out) ==
    IF out.ok THEN Finish(a, Result(Annotated(a, out.resp)))
    ELSE Finish(a, RaisedInPublish(a.transport, MSG_http, a.ai_content))

(***************************************************************************)
(* The callers' inputs and the provider's answers.                         *)
(***************************************************************************)
MaxCalls == 2
Tasks == {"t1"}
Transports == {"stdio", "jsonrpc", "rest"}
\* the names a caller may ask for: every listed tool and one that is no tool
ToolNames == ListedTools("stdio") \cup ListedTools("jsonrpc") \cup {"nope"}

\* an argument that may be left out: no item, or one item per value
Opt(k, vals) == {<<>>} \cup {<<KV(k, v)>> : v \in vals}
Req(k, vals) == {<<KV(k, v)>> : v \in vals}

ToolArguments(name) ==
    CASE name \in {"list_categories", "list_tags"} ->
           {Dict(p) : p \in Opt(S_per_page, {JInt(1)})}
      [] name = "list_posts" ->
           {Dict(p \o g) : p \in Opt(S_per_page, {JInt(1)}), g \in Opt(S_page, {JInt(2)})}
      [] name \in {"search_posts", "search_tags"} ->
           {Dict(q \o p) : q \in Opt(S_search, {JStr(<<"a">>)}),
                           p \in Opt(S_per_page, {JInt(1)})}
      [] name = "create_post" ->
           {Dict(t \o c \o s \o g \o x) :
              t \in Opt(S_title, {JStr(<<"T">>)}), c \in Opt(S_content, {JStr(<<"c">>)}),
              s \in Opt(S_status, {JStr(S_publish)}),
              g \in Opt(S_categories, {JArr(<<>>), JArr(<<JInt(2)>>)}),
              x \in Opt(S_tags, {JArr(<<JInt(1)>>)})}
      [] name = "update_post" ->
           {Dict(i \o t \o c \o s \o g \o x) :
              i \in Opt(S_post_id, {JInt(3)}),
              t \in Opt(S_title, {JStr(<<"T">>)}), c \in Opt(S_content, {JStr(<<"c">>)}),
              s \in Opt(S_status, {JStr(S_publish)}),
              g \in Opt(S_categories, {JArr(<<JInt(2)>>)}),
              x \in Opt(S_tags, {JArr(<<JInt(1)>>)})}
      [] name = "delete_post" ->
           {Dict(i \o f) : i \in Opt(S_post_id, {JInt(3), JInt(9)}),
                           f \in Opt(S_force, {JTrue, JFalse})}
      [] name = "create_tag" ->
           {Dict(n \o d) : n \in Opt(S_name, {JStr(<<"a">>), JStr(<<"B">>)}),
                           d \in Opt(S_description, {JStr(<<>>), JStr(<<"d">>)})}

UploadArguments ==
    {Dict(f \o t \o x) : f \in Opt(S_file_path, {JStr(<<"f">>)}),
                          t \in Opt(S_title, {JStr(<<"T">>)}),
                          x \in Opt(S_alt_text, {JStr(<<>>)})}
ImproveArguments == {Dict(i) : i \in Opt(S_post_id, {JInt(3), JInt(4), JInt(9)})}
\* what improve_content may return: None, an empty text, a text
ImprovedTexts == {PyNone, JStr(<<>>), JStr(<<"x">>)}

GenerateArguments ==
    {Dict(p \o s) : p \in Opt(S_prompt, {JStr(<<"p">>)}), s \in Opt(S_status, {JStr(S_publish)})}

Doc(cats, tags) ==
    ObjText(<<M_title(StrLit(<<"a">>)), M_content, M_excerpt,
              Member(S_categories, cats), Member(S_tags, tags)>>)
\* what the provider may answer: documents naming categories and tags that
\* exist in another case ("A"/"a"), that do not exist ("B", "C"), a tag that
\* is no string, tags that are no list, and texts that are no document
GenerationTexts ==
    { GoodDoc,
      Doc(ArrText(<<StrLit(<<"A">>)>>), ArrText(<<StrLit(<<"a">>), StrLit(<<"B">>)>>)),
      Doc(ArrText(<<StrLit(<<"C">>), StrLit(<<"A">>)>>), ArrText(<<>>)),
      Doc(ArrText(<<>>), ArrText(<<StrLit(<<"B">>)>>)),
      Doc(ArrText(<<>>), ArrText(<<StrLit(<<"a">>)>>)),
      Doc(ArrText(<<>>), ArrText(<<StrLit(<<"B">>), StrLit(<<"b">>)>>)),
      Doc(ArrText(<<>>), ArrText(<<<<"5">>>>)),
      Doc(ArrText(<<>>), <<"5">>),
      ObjText(<<M_title(NullText), M_content, M_excerpt>>),
      <<"S", "o", "r", "r", "y">> }

(***************************************************************************)
(* The dispatchers as a state machine (Spec).                              *)
(***************************************************************************)
\* the normalizer's own variables are at rest; the dispatchers call it whole
NQuiet ==
    /\ adapter = ""
    /\ exchange = ""
    /\ escaped = FALSE
    /\ content = <<>>
    /\ npc = "off"
    /\ content_clean = <<>>
    /\ idx = 1
    /\ in_string = FALSE
    /\ escape_next = FALSE
    /\ result_chars = <<>>
    /\ result = PyNone
    /\ retval = PyNone

\* the page size the resolution loops ask for: per_page=100 (server.py 628, 649)
PER_PAGE == 100
\* a service that holds more tags than one page: a page of other terms and
\* then the term "A"
ManyTags ==
    [i \in 1..PER_PAGE |-> Term(199 + i, <<"z">> \o IntStr(i - 1))] \o <<Term(1, <<"A">>)>>

Init ==
    /\ NQuiet
    /\ SQuiet
    /\ env_ai_key \in BOOLEAN
    /\ ai_generator = AIContentGenerator_init(env_ai_key)
    /\ task = [t \in AllTasks |-> Idle]
    /\ calls = 0
    /\ wp_categories = <<Term(2, <<"a">>)>>
    /\ wp_tags \in {<<>>, <<Term(1, <<"A">>)>>, ManyTags}
    /\ wp_posts = <<Post(3, S_draft)>>
    /\ wp_media = <<>>
    /\ next_id = 4

UNCHANGED_remote == UNCHANGED <<wp_categories, wp_tags, wp_posts, wp_media, next_id>>
Free(t) == task[t].pc = "idle" /\ calls < MaxCalls
Started(tr, name, arguments) ==
    [Idle EXCEPT !.transport = tr, !.name = name, !.arguments = arguments,
                 !.method = IF tr = "rest" THEN "" ELSE "tools/call",
                 !.body = IF tr = "jsonrpc" THEN RpcBody ELSE PyNone]

\* the generator the dispatcher has at hand: the server's own on stdio and
\* REST (self.ai_generator, server.py 184-195), none in the JSON-RPC wrapper
\* until the generate branch constructs one (mcp_http_wrapper.py 423-424)
GeneratorOf(tr) == IF tr = "jsonrpc" THEN PyNone ELSE ai_generator

\* a variant in which the router tests the generator before every tool
StartSimple_needsGenerator(gen, tr, name, arguments) ==
    LET r == ToolRequest(tr, name, arguments)
        a == Started(tr, name, arguments)
    IN  IF gen.t = "None" \/ ~is_available(gen) THEN Finish(a, Unavailable(tr))
        ELSE IF r.raises THEN Finish(a, MissingArgument(tr, r.field))
        ELSE Issue(a, r.req, "simple")

\* the branch of a tool that makes one request, run by a dispatcher that
\* holds the generator gen: server.py 532-592, mcp_http_wrapper.py 358-420
StartSimple(gen, tr, name, arguments) ==
    LET r == ToolRequest(tr, name, arguments)
        a == Started(tr, name, arguments)
    IN  IF r.raises THEN Finish(a, MissingArgument(tr, r.field))
        ELSE Issue(a, r.req, "simple")

\* a tool that makes one request is called: up to the await of that request
CallSimple(t) ==
    /\ Free(t)
    /\ \E tr \in {"stdio", "jsonrpc"}, name \in SimpleTools :
         \E arguments \in ToolArguments(name) :
            /\ name \in RoutedTools(tr)
            /\ task' = [task EXCEPT ![t] = StartSimple(GeneratorOf(tr), tr, name, arguments)]
    /\ calls' = calls + 1
    /\ UNCHANGED_remote
    /\ UNCHANGED <<env_ai_key, ai_generator, nvars, svars>>

\* a tool name no branch of the router handles: server.py 784-788,
\* mcp_http_wrapper.py 503-504
CallUnknown(t) ==
    /\ Free(t)
    /\ \E tr \in {"stdio", "jsonrpc"}, name \in ToolNames :
         /\ name \notin RoutedTools(tr)
         /\ \E arguments \in {Dict(<<>>), Dict(<<KV(S_prompt, JStr(<<"p">>))>>)} :
              task' = [task EXCEPT ![t] =
                          Finish(Started(tr, name, arguments), UnknownTool(tr, name))]
    /\ calls' = calls + 1
    /\ UNCHANGED_remote
    /\ UNCHANGED <<env_ai_key, ai_generator, nvars, svars>>

\* generate_post_with_ai is called: the availability test, the provider
\* call (synchronous) and the start of term resolution, up to the first await
\* (server.py 595-628, mcp_http_wrapper.py 422-445, http_server.py 141-166)
\* a variant that goes on with a stock document when there is none
StartGenerate_fallback(gen, tr, arguments, answered, text) ==
    LET a   == Started(tr, "generate_post_with_ai", arguments)
        ai  == IF answered THEN Normalize(text) ELSE PyNone
        b   == [a EXCEPT !.provider_calls = 1, !.ai_content = ai,
                         !.provider = IF answered THEN "text" ELSE "failed"]
    IN  IF tr = "rest" /\ ~HasKey(arguments, S_prompt)
        THEN Finish(a, Response("http_error", 422, "", "missing", JStr(S_prompt)))
        ELSE IF gen.t = "None" \/ ~is_available(gen)
        THEN Finish(a, Unavailable(tr))
        ELSE IF ~HasKey(arguments, S_prompt)
        THEN Finish(a, MissingArgument(tr, S_prompt))
        ELSE IF ~Truthy(ai) THEN CategoryLoop([b EXCEPT !.ai_content = Normalize(GoodDoc)])
        ELSE CategoryLoop(b)

\* server.py 595-628, mcp_http_wrapper.py 422-445, http_server.py 141-163:
\* generate_post_with_ai up to its first request
StartGenerate(gen, tr, arguments, answered, text) ==
    LET a   == Started(tr, "generate_post_with_ai", arguments)
        ai  == IF answered THEN Normalize(text) ELSE PyNone
        b   == [a EXCEPT !.provider_calls = 1, !.ai_content = ai,
                         !.provider = IF answered THEN "text" ELSE "failed"]
    IN  IF tr = "rest" /\ ~HasKey(arguments, S_prompt)
        THEN Finish(a, Response("http_error", 422, "", "missing", JStr(S_prompt)))
        ELSE IF gen.t = "None" \/ ~is_available(gen)
        THEN Finish(a, Unavailable(tr))
        ELSE IF ~HasKey(arguments, S_prompt)
        THEN Finish(a, MissingArgument(tr, S_prompt))
        ELSE IF ~Truthy(ai) THEN Finish(b, GenerationFailed(tr))
        ELSE CategoryLoop(b)

CallGenerate(t) ==
    /\ Free(t)
    /\ \E tr \in Transports, arguments \in GenerateArguments,
          answered \in BOOLEAN, text \in GenerationTexts :
         /\ tr = "rest" \/ "generate_post_with_ai" \in RoutedTools(tr)
         /\ LET gen == IF tr = "jsonrpc" THEN AIContentGenerator_init(env_ai_key)
                        ELSE ai_generator
            IN  task' = [task EXCEPT ![t] =
                            StartGenerate(gen, tr, arguments, answered, text)]
    /\ calls' = calls + 1
    /\ UNCHANGED_remote
    /\ UNCHANGED <<env_ai_key, ai_generator, nvars, svars>>

\* the content service answers the request the handler waits for
Serve(out) ==
    /\ wp_tags' = out.tags
    /\ wp_posts' = out.posts
    /\ wp_media' = out.media
    /\ next_id' = out.next_id
    /\ UNCHANGED <<wp_categories, env_ai_key, ai_generator, calls, nvars, svars>>

\* the single request of a simple tool came back: the JSON is the result
SimpleReturn(t) ==
    /\ task[t].pc = "simple"
    /\ \E out \in RemoteOutcomes(LastRequest(task[t])) :
         /\ task' = [task EXCEPT ![t] =
                        Finish(Answered(task[t], out),
                               IF out.ok THEN Result(out.resp)
                               ELSE Uncaught(task[t].transport, MSG_http))]
         /\ Serve(out)

ListCategoriesReturn(t) ==
    /\ task[t].pc = "list_categories"
    /\ \E out \in RemoteOutcomes(LastRequest(task[t])) :
         /\ task' = [task EXCEPT ![t] = AfterListCategories(Answered(task[t], out), out)]
         /\ Serve(out)

ListTagsReturn(t) ==
    /\ task[t].pc = "list_tags"
    /\ \E out \in RemoteOutcomes(LastRequest(task[t])) :
         /\ task' = [task EXCEPT ![t] = AfterListTags(Answered(task[t], out), out)]
         /\ Serve(out)

CreateTagReturn(t) ==
    /\ task[t].pc = "create_tag"
    /\ \E out \in RemoteOutcomes(LastRequest(task[t])) :
         /\ task' = [task EXCEPT ![t] = AfterCreateTag(Answered(task[t], out), out)]
         /\ Serve(out)

CreatePostReturn(t) ==
    /\ task[t].pc = "create_post"
    /\ \E out \in RemoteOutcomes(LastRequest(task[t])) :
         /\ task' = [task EXCEPT ![t] = AfterCreatePost(Answered(task[t], out), out)]
         /\ Serve(out)

\* the tool listing is asked for: list_tools (server.py 203-517) and
\* tools/list (mcp_http_wrapper.py 180-335)
CallList(t) ==
    /\ Free(t)
    /\ \E tr \in {"stdio", "jsonrpc"} :
         task' = [task EXCEPT ![t] =
                     Finish([Idle EXCEPT !.transport = tr, !.method = "tools/list",
                                         !.body = IF tr = "jsonrpc" THEN RpcBody ELSE PyNone],
                            [Result(PyNone) EXCEPT !.tools = ListedTools(tr)])]
    /\ calls' = calls + 1
    /\ UNCHANGED_remote
    /\ UNCHANGED <<env_ai_key, ai_generator, nvars, svars>>

\* a JSON-RPC request that is neither tools/list nor tools/call: initialize
\* (mcp_http_wrapper.py 163-178) or a method the endpoint does not support,
\* a missing method included (515-523)
CallMethod(t) ==
    /\ Free(t)
    /\ \E method \in {"initialize", "ping", "None"} :
         task' = [task EXCEPT ![t] =
                     Finish([Idle EXCEPT !.transport = "jsonrpc", !.method = method,
                                         !.body = RpcBody],
                            IF method = "initialize"
                            THEN Result(Dict(<<KV(S_name, JStr(<<"w", "p">>))>>))
                            ELSE Response("rpc_error", 0 - METHOD_NOT_FOUND, MSG_method,
                                          method, PyNone))]
    /\ calls' = calls + 1
    /\ UNCHANGED_remote
    /\ UNCHANGED <<env_ai_key, ai_generator, nvars, svars>>

\* upload_media is called (server.py 569-574, 116-140; mcp_http_wrapper.py
\* 399-404): the file is read, which may fail, and posted as a raw body
StartUpload(gen, tr, arguments, readable) ==
    LET a == Started(tr, "upload_media", arguments)
    IN  IF ~HasKey(arguments, S_file_path)
        THEN Finish(a, MissingArgument(tr, S_file_path))
        ELSE IF ~readable THEN Finish(a, Uncaught(tr, "FileNotFoundError"))
        ELSE Issue(a, [WP_request("POST", Endpoint("media", JNull), PyNone, PyNone)
                          EXCEPT !.content = Get(arguments, S_file_path)],
                   "upload")

CallUpload(t) ==
    /\ Free(t)
    /\ \E tr \in {"stdio", "jsonrpc"}, arguments \in UploadArguments, readable \in BOOLEAN :
         /\ "upload_media" \in RoutedTools(tr)
         /\ task' = [task EXCEPT ![t] =
                        StartUpload(GeneratorOf(tr), tr, arguments, readable)]
    /\ calls' = calls + 1
    /\ UNCHANGED_remote
    /\ UNCHANGED <<env_ai_key, ai_generator, nvars, svars>>

\* server.py 140-154: the upload came back; with a title or an alt text the
\* media object is then updated, and that answer is the result
AfterUpload(a, out) ==
    LET title == DictGet(a.arguments, S_title, JNull)
        alt_text == DictGet(a.arguments, S_alt_text, JNull)
        d1 == IF Truthy(title) THEN SetItem(Dict(<<>>), S_title, title) ELSE Dict(<<>>)
        d2 == IF Truthy(alt_text) THEN SetItem(d1, S_alt_text, alt_text) ELSE d1
    IN  IF ~out.ok THEN Finish(a, Uncaught(a.transport, "HTTPStatusError"))
        ELSE IF Truthy(title) \/ Truthy(alt_text)
        THEN Issue(a, WP_request("PUT", Endpoint("media", Get(out.resp, S_id)), d2, PyNone),
                   "simple")
        ELSE Finish(a, Result(out.resp))

UploadReturn(t) ==
    /\ task[t].pc = "upload"
    /\ \E out \in RemoteOutcomes(LastRequest(task[t])) :
         /\ task' = [task EXCEPT ![t] = AfterUpload(Answered(task[t], out), out)]
         /\ Serve(out)

\* a variant that goes on to publish the document as generate_post_with_ai does
AfterGenerateContent_publishes(b, ai) == CategoryLoop(b)

\* server.py 777-781, http_server.py 242-246: the document is the result
AfterGenerateContent(b, ai) ==
    Finish(b, Result(Dict(<<KV(S_success, JTrue), KV(S_ai_generated, JTrue),
                            KV(S_content, ai)>>)))

\* generate_content_from_prompt (server.py 752-782) and POST
\* /ai/generate-content (http_server.py 219-249): no await in the handler
CallGenerateContent(t) ==
    /\ Free(t)
    /\ \E tr \in {"stdio", "rest"}, arguments \in GenerateArguments,
          answered \in BOOLEAN, text \in GenerationTexts :
         /\ tr = "rest" \/ "generate_content_from_prompt" \in RoutedTools(tr)
         /\ LET a  == Started(tr, "generate_content_from_prompt", arguments)
                ai == IF answered THEN Normalize(text) ELSE PyNone
                b  == [a EXCEPT !.provider_calls = 1, !.ai_content = ai,
                                   !.provider = IF answered THEN "text" ELSE "failed"]
            IN  task' = [task EXCEPT ![t] =
                    IF tr = "rest" /\ ~HasKey(arguments, S_prompt)
                    THEN Finish(a, Response("http_error", 422, "", "missing", JStr(S_prompt)))
                    ELSE IF ai_generator.t = "None" \/ ~is_available(ai_generator)
                    THEN Finish(a, Unavailable(tr))
                    ELSE IF ~HasKey(arguments, S_prompt)
                    THEN Finish(a, MissingArgument(tr, S_prompt))
                    ELSE IF ~Truthy(ai)
                    THEN Finish(b, IF tr = "stdio" THEN GenerationFailed(tr)
                                   ELSE Uncaught(tr, MSG_generation_rest))
                    ELSE AfterGenerateContent(b, ai)]
    /\ calls' = calls + 1
    /\ UNCHANGED_remote
    /\ UNCHANGED <<env_ai_key, ai_generator, nvars, svars>>

\* an exception inside improve_post_with_ai: server.py 745-750,
\* http_server.py 302-303
RaisedInImprove(transport, message) ==
    IF transport = "stdio"
    THEN Response("tool_error", 0, MSG_improve_failed, message, PyNone)
    ELSE Uncaught(transport, message)

\* improve_post_with_ai (server.py 692-707) and POST /ai/improve-post
\* (http_server.py 252-266): up to the await of the post listing, one post
\* per page on stdio, a hundred on REST
CallImprove(t) ==
    /\ Free(t)
    /\ \E tr \in {"stdio", "rest"}, arguments \in ImproveArguments :
         /\ tr = "rest" \/ "improve_post_with_ai" \in RoutedTools(tr)
         /\ LET a == Started(tr, "improve_post_with_ai", arguments)
            IN  task' = [task EXCEPT ![t] =
                    IF tr = "rest" /\ ~HasKey(arguments, S_post_id)
                    THEN Finish(a, Response("http_error", 422, "", "missing", JStr(S_post_id)))
                    ELSE IF ai_generator.t = "None" \/ ~is_available(ai_generator)
                    THEN Finish(a, Unavailable(tr))
                    ELSE IF ~HasKey(arguments, S_post_id)
                    THEN Finish(a, MissingArgument(tr, S_post_id))
                    ELSE IF tr = "stdio"
                    THEN Issue(a, list_posts(JInt(1), JInt(1), JStr(S_any)), "improve_list")
                    ELSE Issue(a, list_posts(JInt100, JInt(1), JStr(S_any)), "improve_list")]
    /\ calls' = calls + 1
    /\ UNCHANGED_remote
    /\ UNCHANGED <<env_ai_key, ai_generator, nvars, svars>>

\* server.py 707-741, http_server.py 266-291: the listing came back; the
\* post is looked for in it, its content is improved (a provider call) and
\* the update is sent
AfterImproveList(a, out, improved) ==
    LET post_id == Get(a.arguments, S_post_id)
        posts == out.resp.a
        found == \E i \in 1..Len(posts) : DictGet(posts[i], S_id, JNull) = post_id
        b == [a EXCEPT !.provider_calls = 1]
    IN  IF ~out.ok THEN Finish(a, RaisedInImprove(a.transport, MSG_http))
        ELSE IF ~found
        THEN Finish(a, IF a.transport = "stdio"
                       THEN Response("tool_error", 0, "", MSG_not_found, post_id)
                       ELSE Response("http_error", 404, "", MSG_not_found, post_id))
        ELSE IF ~Truthy(improved)
        THEN Finish(b, IF a.transport = "stdio"
                       THEN Response("tool_error", 0, "", MSG_improve_generation_stdio, PyNone)
                       ELSE Response("http_error", 500, "", MSG_improve_generation_rest, PyNone))
        ELSE Issue(b, update_post(post_id, Dict(<<KV(S_content, improved)>>)), "improve_update")

ImproveListReturn(t) ==
    /\ task[t].pc = "improve_list"
    /\ \E out \in RemoteOutcomes(LastRequest(task[t])), improved \in ImprovedTexts :
         /\ task' = [task EXCEPT ![t] = AfterImproveList(Answered(task[t], out), out, improved)]
         /\ Serve(out)

\* server.py 738-743, http_server.py 288-298: the update came back
AfterImproveUpdate(a, out) ==
    IF ~out.ok THEN Finish(a, RaisedInImprove(a.transport, MSG_http))
    ELSE IF a.transport = "stdio"
    THEN Finish(a, Result(SetItem(out.resp, S_ai_improved, JTrue)))
    ELSE Finish(a, Result(Dict(<<KV(S_success, JTrue),
                                 KV(S_post_id, DictGet(out.resp, S_id, JNull)),
                                 KV(S_ai_improved, JTrue),
                                 KV(S_link, DictGet(out.resp, S_link, JNull))>>)))

ImproveUpdateReturn(t) ==
    /\ task[t].pc = "improve_update"
    /\ \E out \in RemoteOutcomes(LastRequest(task[t])) :
         /\ task' = [task EXCEPT ![t] = AfterImproveUpdate(Answered(task[t], out), out)]
         /\ Serve(out)

\* the response has been handed to the caller; the invocation's locals are gone
Return(t) ==
    /\ task[t].pc = "done"
    /\ task' = [task EXCEPT ![t] = Idle]
    /\ UNCHANGED_remote
    /\ UNCHANGED <<env_ai_key, ai_generator, calls, nvars, svars>>

Next ==
    \E t \in Tasks :
        \/ CallSimple(t)
        \/ CallUnknown(t)
        \/ CallGenerate(t)
        \/ SimpleReturn(t)
        \/ ListCategoriesReturn(t)
        \/ ListTagsReturn(t)
        \/ CreateTagReturn(t)
        \/ CreatePostReturn(t)
        \/ CallList(t)
        \/ CallMethod(t)
        \/ CallUpload(t)
        \/ UploadReturn(t)
        \/ CallGenerateContent(t)
        \/ CallImprove(t)
        \/ ImproveListReturn(t)
        \/ ImproveUpdateReturn(t)
        \/ Return(t)

Spec == Init /\ [][Next]_vars

(***************************************************************************)
(* The JSON-RPC endpoint from the bytes of the request (SpecRpc):          *)
(* mcp_http_wrapper.py 153-178 and 515-534.  request.json() is json.loads  *)
(* of the body; the except clause reads body again to build its envelope.  *)
(***************************************************************************)
S_method == <<"m", "e", "t", "h", "o", "d">>
S_params == <<"p", "a", "r", "a", "m", "s">>
S_initialize == <<"i", "n", "i", "t", "i", "a", "l", "i", "z", "e">>
S_tools_call == <<"t", "o", "o", "l", "s", "/", "c", "a", "l", "l">>
S_ping == <<"p", "i", "n", "g">>
\* request bodies: a text that is no JSON, JSON values that are no object,
\* and objects with and without id, method and params
BodyTexts ==
    { <<"{">>,
      <<>>,
      ArrText(<<>>),
      NullText,
      <<"5">>,
      StrLit(S_ping),
      ObjText(<<>>),
      ObjText(<<Member(S_id, <<"7">>)>>),
      ObjText(<<Member(S_id, <<"7">>), Member(S_method, StrLit(S_ping))>>),
      ObjText(<<Member(S_id, <<"7">>), Member(S_method, StrLit(S_initialize))>>),
      ObjText(<<Member(S_method, StrLit(S_initialize))>>),
      ObjText(<<Member(S_id, <<"7">>), Member(S_method, StrLit(S_tools_call)),
                Member(S_params, NullText)>>) }

MethodName(v) ==
    CASE v = JStr(S_initialize) -> "initialize"
      [] v = JStr(S_tools_call) -> "tools/call"
      [] v = JStr(S_ping) -> "ping"
      [] OTHER -> "None"

\* a POST whose body is text: lines 153-158, then the branch of the method
\* (initialize 160-175, tools/call with params that are no object 339-340,
\* any other method 515-523), and the except clause 525-534
CallBody(t) ==
    /\ Free(t)
    /\ \E text \in BodyTexts :
         LET p == json_loads(text)
             a == [Idle EXCEPT !.transport = "jsonrpc"]
         IN  task' = [task EXCEPT ![t] =
                 IF ~p.ok
                 THEN Finish([a EXCEPT !.body = Unbound], Unhandled("UnboundLocalError"))
                 ELSE IF p.v.t # "dict"
                 THEN Finish([a EXCEPT !.body = p.v], Unhandled("AttributeError"))
                 ELSE LET method == DictGet(p.v, S_method, JNull)
                          b == [a EXCEPT !.body = p.v, !.method = MethodName(method)]
                      IN  IF method = JStr(S_initialize)
                          THEN Finish(b, Result(Dict(<<KV(S_name, JStr(<<"w", "p">>))>>)))
                          ELSE IF method = JStr(S_tools_call)
                          THEN Finish(b, Uncaught("jsonrpc", "AttributeError"))
                          ELSE Finish(b, Response("rpc_error", 0 - METHOD_NOT_FOUND,
                                                  MSG_method, MethodName(method), PyNone))]
    /\ calls' = calls + 1
    /\ UNCHANGED_remote
    /\ UNCHANGED <<env_ai_key, ai_generator, nvars, svars>>

\* what the endpoint sends back: the envelope built at lines 164-167,
\* 333-337, 507-513, 516-523 and 528-534; members is the set of its keys
\* besides jsonrpc and id, and there is no envelope when the handler raised
Envelope(body, resp) ==
    IF resp.kind \in {"result", "rpc_error"}
    THEN [jsonrpc |-> "2.0", id |-> DictGet(body, S_id, JNull),
          members |-> IF resp.kind = "result" THEN {"result"} ELSE {"error"}]
    ELSE [jsonrpc |-> "", id |-> PyNone, members |-> {}]

RpcNext == Next \/ \E t \in Tasks : CallBody(t)
SpecRpc == Init /\ [][RpcNext]_vars

(***************************************************************************)
(* Two generate_post_with_ai calls at once (SpecRace): the handlers are    *)
(* coroutines of one event loop, so their steps between awaits interleave. *)
(* Both documents name the tag "B", which the service does not hold.       *)
(***************************************************************************)
RaceText == Doc(ArrText(<<>>), ArrText(<<StrLit(<<"B">>)>>))

\* generate_post_with_ai is called while another call may be under way
CallGenerateConcurrently(t) ==
    /\ task[t].pc = "idle"
    /\ calls < MaxCalls
    /\ \E tr \in Transports :
         task' = [task EXCEPT ![t] =
                     StartGenerate(AIContentGenerator_init(env_ai_key), tr,
                                   Dict(<<KV(S_prompt, JStr(<<"p">>))>>), TRUE, RaceText)]
    /\ calls' = calls + 1
    /\ UNCHANGED_remote
    /\ UNCHANGED <<env_ai_key, ai_generator, nvars, svars>>

RaceInit ==
    /\ NQuiet
    /\ SQuiet
    /\ env_ai_key \in BOOLEAN
    /\ ai_generator = AIContentGenerator_init(env_ai_key)
    /\ task = [t \in AllTasks |-> Idle]
    /\ calls = 0
    /\ wp_categories = <<Term(2, <<"a">>)>>
    /\ wp_tags \in {<<>>, <<Term(1, <<"A">>)>>}
    /\ wp_posts = <<Post(3, S_draft)>>
    /\ wp_media = <<>>
    /\ next_id = 4
RaceNext ==
    \E t \in AllTasks :
        \/ CallGenerateConcurrently(t)
        \/ ListTagsReturn(t)
        \/ CreateTagReturn(t)
        \/ CreatePostReturn(t)
SpecRace == RaceInit /\ [][RaceNext]_vars

(***************************************************************************)
(* Part IV.  The notification channel, GET /mcp/sse (SpecSSE): the event   *)
(* generator of mcp_http_wrapper.py 104-131, one step per yield or await.  *)
(***************************************************************************)
\* the method of init_message (line 110)
INIT_EVENT == "initialized"

\* a client connects: the endpoint hands event_generator() to the
\* StreamingResponse (133-141)
SseOpen(c) ==
    /\ sse[c].pc = "closed"
    /\ sse' = [sse EXCEPT ![c] = [pc |-> "start", connected |-> TRUE, events |-> <<>>]]
    /\ UNCHANGED <<nvars, dvars>>

\* lines 108-122: the initialization event is yielded
SseYield(c) ==
    /\ sse[c].pc = "start"
    /\ sse' = [sse EXCEPT ![c].events = Append(@, INIT_EVENT), ![c].pc = "poll"]
    /\ UNCHANGED <<nvars, dvars>>

\* a variant of the loop that never looks at the connection
AfterPoll_ignoresDisconnect(disconnected) == "sleep"

\* lines 126-128: break when the client is gone, else sleep
AfterPoll(disconnected) == IF disconnected THEN "ended" ELSE "sleep"

\* line 126: await request.is_disconnected()
SsePoll(c) ==
    /\ sse[c].pc = "poll"
    /\ sse' = [sse EXCEPT ![c].pc = AfterPoll(~sse[c].connected)]
    /\ UNCHANGED <<nvars, dvars>>

\* line 128: asyncio.sleep(1) is over
SseWake(c) ==
    /\ sse[c].pc = "sleep"
    /\ sse' = [sse EXCEPT ![c].pc = "poll"]
    /\ UNCHANGED <<nvars, dvars>>

\* the client goes away
SseDisconnect(c) ==
    /\ sse[c].pc # "closed"
    /\ sse[c].connected
    /\ sse' = [sse EXCEPT ![c].connected = FALSE]
    /\ UNCHANGED <<nvars, dvars>>

SInit == NQuiet /\ DQuiet /\ SQuiet
\* the generator's own steps: the event loop runs a coroutine that is ready
\* and a sleep of one second ends
SseStep(c) == SseYield(c) \/ SsePoll(c) \/ SseWake(c)
SNext ==
    \E c \in Channels :
        \/ SseOpen(c)
        \/ SseYield(c)
        \/ SsePoll(c)
        \/ SseWake(c)
        \/ SseDisconnect(c)
SpecSSE == SInit /\ [][SNext]_vars /\ \A c \in Channels : WF_vars(SseStep(c))

(***************************************************************************)
(* Claims about the dispatchers, checked under Spec.                       *)
(***************************************************************************)
Generating(a) == a.name = "generate_post_with_ai" /\ a.ai_content.t = "dict"
IsRequest(e, method, collection) ==
    e.req.method = method /\ e.req.endpoint.collection = collection
\* the tag-creation calls a handler has made
CreationCalls(a) == {i \in 1..Len(a.log) : IsRequest(a.log[i], "POST", "tags")}
\* equality of two names ignoring the case of their letters
SameLetter(x, y) ==
    \/ x = y
    \/ \E i \in 1..Len(UpperLetters) : {x, y} = {UpperLetters[i], LowerLetters[i]}
SameIgnoringCase(x, y) ==
    Len(x) = Len(y) /\ \A i \in 1..Len(x) : SameLetter(x[i], y[i])
\* the listed terms (JSON objects) whose name equals name ignoring case
NamedLike(listing, name) ==
    {i \in 1..Len(listing) : SameIgnoringCase(DictGet(listing[i], S_name, JStr(<<>>)).s, name)}
\* the names a document gives under key k, when it gives a list of strings
NamesOf(a, k) ==
    LET v == DictGet(a.ai_content, k, JNull)
    IN  IF v.t = "list" /\ \A i \in 1..Len(v.a) : v.a[i].t = "str" THEN v.a ELSE <<>>

\* C2 (as stated): every DELETE request that delete_post issues carries the
\* parameter force, "true" when the caller passed force=true and "false" when
\* the caller passed force=false or left it out.
C2_ForceForwarded ==
    \A t \in Tasks :
        LET a == task[t]
        IN  (a.name = "delete_post" /\ Len(a.log) > 0) =>
                LET req == a.log[1].req
                    want == IF DictGet(a.arguments, S_force, JFalse) = JTrue
                            THEN S_true ELSE S_false
                IN  /\ req.method = "DELETE"
                    /\ req.params.t = "dict"
                    /\ DictGet(req.params, S_force, JNull) = JStr(want)

\* C3 (as stated): on the stdio and the JSON-RPC path alike, the body that
\* update_post sends holds exactly the fields the caller provided, with the
\* caller's values, and no field the caller left out.
C3_SparseUpdate ==
    \A t \in Tasks :
        LET a == task[t]
        IN  (a.name = "update_post" /\ Len(a.log) > 0) =>
                LET body == a.log[1].req.json
                IN  /\ body.t = "dict"
                    /\ Keys(body) = Keys(a.arguments) \ {S_post_id}
                    /\ \A k \in Keys(body) : Get(body, k) = Get(a.arguments, k)

\* C4 (as stated): when the environment configures no generation credential,
\* a finished generate_post_with_ai call has answered that the generator is
\* unavailable (over JSON-RPC: error code -32603) and has sent no request to
\* the content service.
C4_UnavailableShortCircuits ==
    \A t \in Tasks :
        LET a == task[t]
        IN  (a.name = "generate_post_with_ai" /\ a.pc = "done" /\ ~env_ai_key
             /\ HasKey(a.arguments, S_prompt)) =>
                /\ a.response = Unavailable(a.transport)
                /\ a.log = <<>>

\* C8: when the tag listing comes back and holds a term whose name equals the
\* wanted tag name ignoring case, the handler appends the id of such a term
\* to tag_ids and makes no tag-creation call.
C8_Step(t) ==
    LET a == task[t]
        b == task'[t]
        k == Len(a.log)
        tag_name == Iter(Get(a.ai_content, S_tags))[a.ti]
        hits == NamedLike(b.log[k].resp.a, tag_name.s)
    IN  (a.pc = "list_tags" /\ b.log[k].outcome = "ok" /\ tag_name.t = "str" /\ hits # {}) =>
            /\ Len(b.tag_ids) = Len(a.tag_ids) + 1
            /\ SubSeq(b.tag_ids, 1, Len(a.tag_ids)) = a.tag_ids
            /\ \E i \in hits : b.tag_ids[Len(b.tag_ids)] = Get(b.log[k].resp.a[i], S_id)
            /\ CreationCalls(b) = CreationCalls(a)
C8_MatchedTagReused == [][\A t \in Tasks : C8_Step(t)]_vars
\* the document's only tag is "a", the listing held the term "A" with id 1:
\* the id was taken, nothing was created, the post is being created
C8_Witness ==
    \E t \in Tasks :
        LET a == task[t]
        IN  /\ Generating(a)
            /\ NamesOf(a, S_tags) = <<JStr(<<"a">>)>>
            /\ a.pc = "create_post"
            /\ Len(a.log) = 2
            /\ a.log[1].outcome = "ok"
            /\ NamedLike(a.log[1].resp.a, <<"a">>) # {}
            /\ DictGet(a.log[1].resp.a[1], S_name, JNull) = JStr(<<"A">>)
            /\ a.tag_ids = <<JInt(1)>>
            /\ CreationCalls(a) = {}

\* C9: for a document with a single tag name whose listing came back without
\* a term of that name, exactly one tag-creation call is made, for that
\* name; when it succeeds tag_ids is the created term's id; when it fails
\* tag_ids is empty, nothing is raised and the handler goes on to create
\* the post.
C9_Case(a, k) ==
    /\ Generating(a)
    /\ Len(NamesOf(a, S_tags)) = 1
    /\ k \in 1..Len(a.log)
    /\ IsRequest(a.log[k], "GET", "tags")
    /\ a.log[k].outcome = "ok"
    /\ NamedLike(a.log[k].resp.a, NamesOf(a, S_tags)[1].s) = {}
C9_SingleNewTag ==
    \A t \in Tasks :
        LET a == task[t]
        IN  \A k \in 1..Len(a.log) :
                C9_Case(a, k) =>
                    /\ CreationCalls(a) = {k + 1}
                    /\ a.log[k + 1].req = create_tag(NamesOf(a, S_tags)[1], JNull, JNull)
                    /\ a.log[k + 1].outcome = "pending" => a.pc = "create_tag" /\ a.tag_ids = <<>>
                    /\ a.log[k + 1].outcome = "ok" =>
                           a.tag_ids = <<Get(a.log[k + 1].resp, S_id)>>
                    /\ a.log[k + 1].outcome = "failed" => a.tag_ids = <<>>
                    /\ a.log[k + 1].outcome # "pending" =>
                           /\ Len(a.log) = k + 2
                           /\ IsRequest(a.log[k + 2], "POST", "posts")
                           /\ DictGet(a.log[k + 2].req.json, S_tags, JNull) = IdsOrNone(a.tag_ids)
                           /\ a.pc = "create_post" \/ a.log[k + 2].outcome # "pending"
\* the creation of the single new tag failed and the call still returned the
\* created post
C9_Witness ==
    \E t \in Tasks :
        LET a == task[t]
        IN  /\ C9_Case(a, 1)
            /\ a.log[2].outcome = "failed"
            /\ a.pc = "done"
            /\ a.response.kind = "result"
            /\ a.tag_ids = <<>>

\* C10: category resolution sends only category listings and never a
\* creation request: the requests made for the document's n category names
\* are GET categories, no request other than GET ever goes to categories,
\* and category_ids holds, in order, the ids of the names processed that
\* have a term of that name; a name without one adds nothing.
ResolvedCategories(a) ==
    LET names == NamesOf(a, S_categories)
        done  == SubSeq(names, 1, Min(a.ci - 1, Len(names)))
        found == SelectSeq(done, LAMBDA x : \E i \in 1..Len(wp_categories) :
                                               SameIgnoringCase(wp_categories[i].name, x.s))
    IN  [j \in 1..Len(found) |->
            JInt(wp_categories[CHOOSE i \in 1..Len(wp_categories) :
                                  SameIgnoringCase(wp_categories[i].name, found[j].s)].id)]
WellFormedNames(a) ==
    /\ \A k \in {S_categories, S_tags} :
          LET v == DictGet(a.ai_content, k, JNull)
          IN  v.t = "list" /\ \A i \in 1..Len(v.a) : v.a[i].t = "str"

\* C11 (as stated): whatever the remote calls answer, term resolution of a
\* well-formed document ends with the ids that resolved and the handler
\* still sends the post-creation request: a finished call has sent
\* POST posts.
C11_ResolutionNeverFails ==
    \A t \in Tasks :
        LET a == task[t]
        IN  (Generating(a) /\ WellFormedNames(a) /\ a.pc = "done") =>
                \E i \in 1..Len(a.log) : IsRequest(a.log[i], "POST", "posts")

\* C14 (as stated): a JSON-RPC create_post call with only title and content
\* sends one POST with status "draft" and without the keys categories and
\* tags, and its result holds the keys post_id, link and status "draft".
C14_Case(a) ==
    /\ a.transport = "jsonrpc"
    /\ a.name = "create_post"
    /\ Keys(a.arguments) = {S_title, S_content}
C14_AsStated ==
    \A t \in Tasks :
        LET a == task[t]
        IN  (C14_Case(a) /\ a.pc = "done" /\ a.log[1].outcome = "ok") =>
                /\ HasKey(a.response.value, S_post_id)
                /\ HasKey(a.response.value, S_link)
                /\ DictGet(a.response.value, S_status, JNull) = JStr(S_draft)
\* C14: such a call sends exactly one request, POST posts, whose body is
\* the title, the content and status "draft" and has no categories and no
\* tags key; when the service accepts it the result is the service's post
\* object as it came back, holding id (not post_id), link and status "draft".
C14_DraftByDefault ==
    \A t \in Tasks :
        LET a == task[t]
        IN  C14_Case(a) =>
                /\ Len(a.log) = 1
                /\ IsRequest(a.log[1], "POST", "posts")
                /\ Keys(a.log[1].req.json) = {S_title, S_content, S_status}
                /\ Get(a.log[1].req.json, S_title) = Get(a.arguments, S_title)
                /\ Get(a.log[1].req.json, S_content) = Get(a.arguments, S_content)
                /\ Get(a.log[1].req.json, S_status) = JStr(S_draft)
                /\ (a.pc = "done" /\ a.log[1].outcome = "ok") =>
                       /\ a.response.kind = "result"
                       /\ a.response.value = a.log[1].resp
                       /\ HasKey(a.response.value, S_id)
                       /\ ~HasKey(a.response.value, S_post_id)
                       /\ HasKey(a.response.value, S_link)
                       /\ DictGet(a.response.value, S_status, JNull) = JStr(S_draft)
C14_Witness ==
    \E t \in Tasks :
        LET a == task[t]
        IN  /\ C14_Case(a)
            /\ a.pc = "done"
            /\ a.log[1].outcome = "ok"
            /\ DictGet(a.response.value, S_id, JNull) = JInt(4)

\* the names of the document under key k whose id went into the post
AttachedNames(a, k, remote) ==
    SelectSeq(NamesOf(a, k), LAMBDA x : \E i \in 1..Len(remote) :
                                           SameIgnoringCase(remote[i].name, x.s))
\* C19 (as stated): the result of a successful generate_post_with_ai call
\* holds ai_generated true, a source name, and under ai_categories and
\* ai_tags the names whose ids were attached to the post.
C19_AttachedLabelsReported ==
    \A t \in Tasks :
        LET a == task[t]
        IN  (Generating(a) /\ WellFormedNames(a) /\ a.pc = "done"
             /\ a.response.kind = "result") =>
                /\ DictGet(a.response.value, S_ai_generated, JNull) = JTrue
                /\ HasKey(a.response.value, S_source)
                /\ Len(DictGet(a.response.value, S_ai_categories, JNull).a) = Len(a.category_ids)
                /\ Len(DictGet(a.response.value, S_ai_tags, JNull).a) = Len(a.tag_ids)
                /\ DictGet(a.response.value, S_ai_categories, JNull)
                      = JArr(AttachedNames(a, S_categories, wp_categories))

\* C20: when generate_post_with_ai created one or more tags and the
\* post-creation request then failed, the call ends with an error and not a
\* result, every created tag is still on the service, and the failed
\* post-creation request is the last request of the call (nothing is
\* deleted or undone).
CreatedTags(a) == {i \in CreationCalls(a) : a.log[i].outcome = "ok"}
C20_Case(a) ==
    /\ Generating(a)
    /\ a.pc = "done"
    /\ CreatedTags(a) # {}
    /\ IsRequest(a.log[Len(a.log)], "POST", "posts")
    /\ a.log[Len(a.log)].outcome = "failed"
C20_PartialSuccessSurfaced ==
    \A t \in Tasks :
        LET a == task[t]
        IN  C20_Case(a) =>
                /\ a.response.kind \in {"tool_error", "rpc_error", "http_error"}
                /\ \A i \in CreatedTags(a) :
                       \E j \in 1..Len(wp_tags) :
                           /\ JInt(wp_tags[j].id) = Get(a.log[i].resp, S_id)
                           /\ JStr(wp_tags[j].name) = Get(a.log[i].req.json, S_name)
                /\ \A i \in 1..Len(a.log) : a.log[i].req.method \in {"GET", "POST"}
                /\ \A i \in 1..Len(a.log) :
                       IsRequest(a.log[i], "POST", "posts") => i = Len(a.log)
C20_Witness ==
    \E t \in Tasks :
        LET a == task[t]
        IN  /\ C20_Case(a)
            /\ a.response.kind = "rpc_error"
            /\ \E j \in 1..Len(wp_tags) : wp_tags[j].name = <<"B">>

\* C15: a tool call whose name the transport's registry does not hold ends
\* with the unknown-tool error whose text carries that name, and the call has
\* sent no request to the content service and has not called the provider
C15_UnknownToolNamed ==
    \A t \in Tasks :
        LET a == task[t]
        IN  (a.pc = "done" /\ a.method = "tools/call"
                /\ a.name \notin ListedTools(a.transport)) =>
               /\ a.response.kind \in {"tool_error", "rpc_error"}
               /\ a.response.prefix = MSG_unknown_tool
               /\ a.response.message = a.name
               /\ a.log = <<>>
               /\ a.provider_calls = 0

C15_Witness ==
    \E t \in Tasks :
        /\ task[t].pc = "done"
        /\ task[t].transport = "stdio"
        /\ task[t].name = "nope"
        /\ task[t].response.message = "nope"
        /\ task[t].log = <<>>

\* C18: a call of a routed tool that leaves out an argument the tool
\* requires ends with an error that holds the name of a missing field, and the
\* call has sent no request to the content service and has not called the
\* provider
C18_Case(a) ==
    /\ a.pc # "idle"
    /\ a.method = "tools/call"
    /\ a.name \in RoutedTools(a.transport)
    /\ RequiredArguments(a.name) \ Keys(a.arguments) # {}

C18_MissingArgumentNamed ==
    \A t \in Tasks :
        LET a == task[t]
        IN  C18_Case(a) =>
               /\ a.pc = "done"
               /\ a.response.kind \in {"tool_error", "rpc_error"}
               /\ a.response.value.t = "str"
               /\ a.response.value.s \in RequiredArguments(a.name) \ Keys(a.arguments)
               /\ a.log = <<>>
               /\ a.provider_calls = 0

C18_Witness ==
    \E t \in Tasks :
        /\ C18_Case(task[t])
        /\ task[t].name = "create_post"
        /\ Keys(task[t].arguments) = {S_title}
        /\ task[t].response.value = JStr(S_content)

\* the response is the unknown-tool error
IsUnknownToolError(resp) ==
    resp.kind \in {"tool_error", "rpc_error"} /\ resp.prefix = MSG_unknown_tool

\* C13: on the JSON-RPC endpoint a method other than initialize, tools/list
\* and tools/call is answered with error -32601; a supported method is
\* answered with a result or with error -32603 and a text, and a result is
\* given only when the handler ran to its end: the tool is routed and the last
\* request it made was accepted
C13_Supported == {"initialize", "tools/list", "tools/call"}
C13_Completed(a) ==
    \/ a.method \in {"initialize", "tools/list"}
    \/ /\ a.name \in RoutedTools("jsonrpc")
       /\ RequiredArguments(a.name) \subseteq Keys(a.arguments)
       /\ Len(a.log) > 0
       /\ a.log[Len(a.log)].outcome = "ok"

C13_ErrorCodes ==
    \A t \in Tasks :
        LET a == task[t]
            r == a.response
        IN  (a.pc = "done" /\ a.transport = "jsonrpc") =>
               IF a.method \notin C13_Supported
               THEN r.kind = "rpc_error" /\ r.code = 0 - METHOD_NOT_FOUND
               ELSE /\ r.kind \in {"result", "rpc_error"}
                    /\ r.kind = "rpc_error" =>
                          r.code = 0 - INTERNAL_ERROR /\ (r.prefix # "" \/ r.message # "")
                    /\ r.kind = "result" => C13_Completed(a)

C13_Witness ==
    \E t \in Tasks :
        LET a == task[t]
        IN  /\ a.pc = "done"
            /\ a.transport = "jsonrpc"
            /\ a.method = "tools/call"
            /\ Len(a.log) > 0
            /\ a.log[Len(a.log)].outcome = "failed"
            /\ a.response.code = 0 - INTERNAL_ERROR

\* C16: on each transport the names the listing returns are the names the
\* router executes: the listing's answer holds a name exactly when a call
\* of that name is not answered with the unknown-tool error
C16_NoDrift ==
    \A t \in Tasks :
        LET a == task[t]
        IN  (a.pc = "done" /\ a.transport \in {"stdio", "jsonrpc"}) =>
               /\ a.method = "tools/list" => a.response.tools = RoutedTools(a.transport)
               /\ a.method = "tools/call" =>
                     (a.name \in ListedTools(a.transport) <=> ~IsUnknownToolError(a.response))

C16_Witness ==
    \E t \in Tasks :
        /\ task[t].pc = "done"
        /\ task[t].transport = "jsonrpc"
        /\ task[t].method = "tools/call"
        /\ task[t].name = "upload_media"
        /\ task[t].response.kind = "result"

\* C17: the HTTP wrapper lists the names the stdio server lists, and a tool
\* the stdio server executes is never answered with the unknown-tool error by
\* the wrapper
C17_WrapperComplete ==
    \A t \in Tasks :
        LET a == task[t]
        IN  (a.pc = "done" /\ a.transport = "jsonrpc") =>
               /\ a.method = "tools/list" => a.response.tools = ListedTools("stdio")
               /\ (a.method = "tools/call" /\ a.name \in RoutedTools("stdio")) =>
                     ~IsUnknownToolError(a.response)

\* C12: a tag whose name the service holds, up to case, is never asked to
\* be created: while a generate call waits for the answer to a tag creation,
\* no tag of the service has the name that the request carries
C12_ExistingTermReused ==
    \A t \in Tasks :
        LET a == task[t]
        IN  (Generating(a) /\ Len(a.log) > 0 /\ IsRequest(a.log[Len(a.log)], "POST", "tags")
                /\ a.log[Len(a.log)].outcome = "pending") =>
               LET name == DictGet(LastRequest(a).json, S_name, JNull)
               IN  name.t = "str" => ~TermExists(wp_tags, name.s)

\* C30: in one iteration of the scan, a pending escape is cleared and the
\* character is appended unchanged without touching in_string, whatever the
\* character; with no escape pending a backslash sets the escape and is
\* appended, a double quote toggles in_string, and no other character
\* changes in_string or sets the escape
C30_Step ==
    (npc = "scan" /\ idx <= Len(content_clean) /\ idx' = idx + 1) =>
        LET char == content_clean[idx]
        IN  /\ escape_next =>
                  /\ escape_next' = FALSE
                  /\ result_chars' = Append(result_chars, char)
                  /\ in_string' = in_string
            /\ (~escape_next /\ char = BACKSLASH) =>
                  /\ escape_next' = TRUE
                  /\ result_chars' = Append(result_chars, char)
                  /\ in_string' = in_string
            /\ (~escape_next /\ char = QUOTE) =>
                  /\ in_string' = ~in_string
                  /\ escape_next' = FALSE
            /\ (~escape_next /\ char \notin {BACKSLASH, QUOTE}) =>
                  /\ in_string' = in_string
                  /\ escape_next' = FALSE
C30_EscapeExact == [][C30_Step]_vars

\* the scan has just passed a double quote that follows a backslash inside
\* a string: the escape is cleared and the string is still open
C30_Witness ==
    /\ npc = "scan"
    /\ idx > 3
    /\ idx - 1 <= Len(content_clean)
    /\ content_clean[idx - 3] = QUOTE
    /\ content_clean[idx - 2] = BACKSLASH
    /\ content_clean[idx - 1] = QUOTE
    /\ ~escape_next
    /\ in_string
    /\ result_chars[Len(result_chars)] = QUOTE

\* C25: with no generation credential in the configuration the
\* availability test answers false, for the long-lived generator and for one
\* constructed for the call
C25_AvailabilityReflectsCredential ==
    ~env_ai_key =>
        /\ ~is_available(ai_generator)
        /\ ~is_available(AIContentGenerator_init(env_ai_key))

\* C22: a finished call of a tool that stands for one operation of the
\* client has sent at most one request
C22_Operations == SimpleTools \cup {"upload_media"}
C22_OneRequestPerOperation ==
    \A t \in Tasks :
        (task[t].pc = "done" /\ task[t].name \in C22_Operations) => Len(task[t].log) <= 1

\* C27: improve_post_with_ai asked for a post the service holds, the
\* listing having been answered, does not report that the post is not found
C27_ExistingPostFound ==
    \A t \in Tasks :
        LET a == task[t]
        IN  (/\ a.pc = "done"
             /\ a.name = "improve_post_with_ai"
             /\ HasKey(a.arguments, S_post_id)
             /\ PostAt(Get(a.arguments, S_post_id)) # {}
             /\ Len(a.log) = 1
             /\ a.log[1].outcome = "ok")
            => a.response.message # MSG_not_found

\* C28: a call that only generates content sends no request to the content
\* service, whatever the provider answers, and its result holds the generated
\* document under content with ai_generated true
C28_Case(a) == a.pc # "idle" /\ a.name = "generate_content_from_prompt"
C28_NothingPublished ==
    \A t \in Tasks :
        LET a == task[t]
        IN  C28_Case(a) =>
               /\ a.pc = "done"
               /\ a.log = <<>>
               /\ a.response.kind = "result" =>
                     /\ Truthy(a.ai_content)
                     /\ a.response.value =
                           Dict(<<KV(S_success, JTrue), KV(S_ai_generated, JTrue),
                                  KV(S_content, a.ai_content)>>)
               /\ a.response.kind # "result" => ~Truthy(a.ai_content)

C28_Witness ==
    \E t \in Tasks :
        /\ C28_Case(task[t])
        /\ task[t].transport = "rest"
        /\ task[t].response.kind = "result"
        /\ HasKey(task[t].response.value, S_content)
        /\ wp_posts = <<Post(3, S_draft)>>

\* C26: a tool that is not AI-assisted does the same whatever generator the
\* dispatcher holds: the step that starts it leaves the call where the
\* branch leaves it with an available generator, with one that has no client
\* and with none, and the call's result is the content service's answer
GeneratorStates ==
    {AIContentGenerator_init(TRUE), Dict(<<KV(<<"c", "l", "i", "e", "n", "t">>, JNull)>>),
     PyNone}
C26_Tools == SimpleTools \cup {"upload_media"}
C26_Step ==
    \A t \in Tasks :
        LET a == task[t]
            b == task'[t]
        IN  /\ (a.pc = "idle" /\ b.pc # "idle" /\ b.method = "tools/call"
                    /\ b.name \in SimpleTools \cap RoutedTools(b.transport)) =>
                  \A g \in GeneratorStates :
                      b = StartSimple(g, b.transport, b.name, b.arguments)
            /\ (a.pc = "idle" /\ b.pc # "idle" /\ b.name = "upload_media") =>
                  \A g \in GeneratorStates :
                      \E readable \in BOOLEAN :
                          b = StartUpload(g, b.transport, b.arguments, readable)
            /\ (a.pc = "simple" /\ b.pc = "done" /\ a.name \in C26_Tools) =>
                  /\ b.log[Len(b.log)].outcome = "ok" =>
                        b.response = Result(b.log[Len(b.log)].resp)
                  /\ b.log[Len(b.log)].outcome # "ok" => b.response.kind # "result"
C21_NoDocumentTexts == {MSG_generation_stdio, MSG_generation_rpc}
C21_FailureKindsDistinguishable ==
    \A t \in Tasks :
        LET a == task[t]
        IN  (a.pc = "done" /\ a.name = "generate_post_with_ai" /\ a.provider_calls = 1
                /\ ~Truthy(a.ai_content)) =>
               /\ a.provider = "text" => a.response.message \in C21_NoDocumentTexts
               /\ a.provider = "failed" => a.response.message \notin C21_NoDocumentTexts

\* C29: no method of the adapter lets an exception past: whatever the
\* exchange with the provider gives and whatever text comes back, the call
\* ends with a value or with None
C29_NeverRaises ==
    /\ ~escaped
    /\ npc = "done" =>
          \/ retval = PyNone
          \/ adapter = "generate_post_content" /\ retval.t = "dict"
          \/ adapter # "generate_post_content" /\ retval.t = "str"

\* the provider's text was the JSON value null: the field test raised
\* TypeError, which the clause for JSONDecodeError lets through and the
\* method's outer clause catches
C29_Witness ==
    /\ npc = "done"
    /\ adapter = "generate_post_content"
    /\ exchange = "text"
    /\ result = JNull
    /\ ValidateRaises(result)
    /\ retval = PyNone
    /\ ~escaped

\* C23: an opened channel has yielded the initialization event and nothing
\* else once the generator is past its first yield; while the client is
\* connected the generator stays in its loop; the poll that finds the client
\* gone leaves the loop; and after a disconnect the generator eventually ends
C23_Emitted(c) ==
    /\ sse[c].pc \in {"closed", "start"} => sse[c].events = <<>>
    /\ sse[c].pc \in {"poll", "sleep", "ended"} => sse[c].events = <<INIT_EVENT>>
    /\ sse[c].pc = "ended" => ~sse[c].connected
C23_Step ==
    \A c \in Channels :
        /\ (sse[c].pc \in {"poll", "sleep"} /\ sse[c].connected /\ sse'[c].connected) =>
              sse'[c].pc \in {"poll", "sleep"}
        /\ (sse[c].pc = "poll" /\ ~sse[c].connected /\ sse'[c] # sse[c]) =>
              sse'[c].pc = "ended"
C23_ChannelIdlesThenEnds ==
    /\ [](\A c \in Channels : C23_Emitted(c))
    /\ [][C23_Step]_vars
    /\ \A c \in Channels :
          (sse[c].pc # "closed" /\ ~sse[c].connected) ~> (sse[c].pc = "ended")

C23_Witness ==
    \E c \in Channels :
        /\ sse[c].pc = "ended"
        /\ ~sse[c].connected
        /\ sse[c].events = <<INIT_EVENT>>

\* C24: of two concurrent calls that both want the new tag "B", none is
\* ended by the other's creation of it: a tag creation that fails is never
\* a call's last request, a finished call whose listings were all answered
\* has sent its post-creation request, and it has a result when that request
\* was accepted
C24_Listings(a) == {i \in 1..Len(a.log) : a.log[i].req.method = "GET"}
C24_PostCreations(a) == {i \in 1..Len(a.log) : IsRequest(a.log[i], "POST", "posts")}
C24_RaceAbsorbed ==
    \A t \in AllTasks :
        LET a == task[t]
        IN  /\ \A i \in CreationCalls(a) : a.log[i].outcome = "failed" => i < Len(a.log)
            /\ (a.pc = "done" /\ \A i \in C24_Listings(a) : a.log[i].outcome = "ok") =>
                  /\ Cardinality(C24_PostCreations(a)) = 1
                  /\ a.log[Len(a.log)].outcome = "ok" => a.response.kind = "result"

\* both calls listed the tags before either created "B", both asked for its
\* creation, one creation was refused, and both calls created their post
C24_Witness ==
    /\ \A t \in AllTasks :
          /\ task[t].pc = "done"
          /\ Cardinality(CreationCalls(task[t])) = 1
          /\ task[t].response.kind = "result"
    /\ \E t \in AllTasks : \E i \in CreationCalls(task[t]) : task[t].log[i].outcome = "failed"
    /\ \E t \in AllTasks : \E i \in CreationCalls(task[t]) : task[t].log[i].outcome = "ok"
    /\ Cardinality({i \in 1..Len(wp_tags) : wp_tags[i].name = <<"B">>}) = 1

(***************************************************************************)
(* Further claims about the normalizer, checked under SpecNorm.            *)
(***************************************************************************)
\* what the scan writes for position i of the text c
C31_Image(c, i) ==
    IF c[i] \in {LF, TAB, CR} /\ InsideString(c, i) /\ ~Escaped(c, i)
    THEN IF c[i] = LF THEN <<BACKSLASH, "n">>
         ELSE IF c[i] = TAB THEN <<BACKSLASH, "t">>
         ELSE <<>>
    ELSE <<c[i]>>
RECURSIVE C31_Rewritten(_, _, _)
C31_Rewritten(c, lo, hi) ==
    IF lo > hi THEN <<>>
    ELSE IF lo = hi THEN C31_Image(c, lo)
    ELSE LET mid == (lo + hi) \div 2
         IN  C31_Rewritten(c, lo, mid) \o C31_Rewritten(c, mid + 1, hi)

\* C31: the scan's output is its input, character by character and in order,
\* except that a newline, tab or carriage return that stands inside a string
\* and follows no escaping backslash is written as backslash-n, backslash-t
\* or nothing; this holds after every iteration and for the joined text
C31_OnlyStringControlsRewritten ==
    /\ npc = "scan" => result_chars = C31_Rewritten(content_clean, 1, idx - 1)
    /\ npc = "loads" =>
          LET c == CleanFence(content)
          IN  content_clean = C31_Rewritten(c, 1, Len(c))

\* the scan has ended on a text with a tab and a carriage return inside a
\* string: the joined text differs from the text scanned, holds no carriage
\* return and holds the tab as an escape sequence
C31_Witness ==
    /\ npc = "loads"
    /\ LET c == CleanFence(content)
       IN  /\ \E i \in 1..Len(c) : c[i] = TAB /\ InsideString(c, i) /\ ~Escaped(c, i)
           /\ \E i \in 1..Len(c) : c[i] = CR /\ InsideString(c, i) /\ ~Escaped(c, i)
           /\ content_clean # c
           /\ \A i \in 1..Len(content_clean) : content_clean[i] \notin {TAB, CR}
           /\ \E i \in 2..Len(content_clean) :
                  content_clean[i - 1] = BACKSLASH /\ content_clean[i] = "t"

\* C35: the scan applied to its own output returns that output: the text
\* joined at the end of the loop is a fixed point of the scan
C35_ScanIdempotent ==
    npc = "loads" => Scan(content_clean) = content_clean

\* the scan has rewritten a newline inside a string, and scanning the
\* rewritten text again changes nothing
C35_Witness ==
    /\ npc = "loads"
    /\ LET c == CleanFence(content)
       IN  /\ \E i \in 1..Len(c) : c[i] = LF /\ InsideString(c, i) /\ ~Escaped(c, i)
           /\ content_clean = Scan(c)
           /\ content_clean # c
    /\ Scan(content_clean) = content_clean

(***************************************************************************)
(* Further claims about the dispatchers, checked under Spec.               *)
(***************************************************************************)
ErrorKinds == {"tool_error", "rpc_error", "http_error"}

\* C32: a generate_post_with_ai call whose generation gave no document (the
\* provider request failed, or its text did not normalize) has ended with an
\* error and has sent no request to the content service; a call that has
\* sent a request holds a document with title, content and excerpt
C32_NoDocumentNoRequest ==
    \A t \in AllTasks :
        LET a == task[t]
        IN  a.name = "generate_post_with_ai" =>
              /\ (a.provider = "failed" \/ (a.provider_calls = 1 /\ a.ai_content = PyNone)) =>
                    /\ a.pc = "done"
                    /\ a.log = <<>>
                    /\ a.response.kind \in ErrorKinds
              /\ a.log # <<>> =>
                    /\ a.ai_content.t = "dict"
                    /\ \A f \in required_fields : HasKey(a.ai_content, f)

\* the provider answered with a text that did not normalize: the call over
\* the JSON-RPC endpoint ended with an error envelope and without a request
C32_Witness ==
    \E t \in AllTasks :
        /\ task[t].name = "generate_post_with_ai"
        /\ task[t].transport = "jsonrpc"
        /\ task[t].provider = "text"
        /\ task[t].ai_content = PyNone
        /\ task[t].pc = "done"
        /\ task[t].log = <<>>
        /\ task[t].response.kind = "rpc_error"

\* the ids that the answers in log[1..k] resolved for a collection, read
\* from the answers alone: the n-th listing is for the n-th name and gives
\* the id of the first term named like it; a creation gives the new id
RECURSIVE C33_Ids(_, _, _, _)
C33_Ids(a, key, collection, k) ==
    IF k = 0 THEN <<>>
    ELSE LET e == a.log[k]
             prev == C33_Ids(a, key, collection, k - 1)
             names == Iter(DictGet(a.ai_content, key, JNull))
             n == Cardinality({i \in 1..k : IsRequest(a.log[i], "GET", collection)})
             hits == IF n \in 1..Len(names) /\ names[n].t = "str"
                     THEN NamedLike(e.resp.a, names[n].s) ELSE {}
         IN  IF IsRequest(e, "GET", collection) /\ e.outcome = "ok" /\ hits # {}
             THEN Append(prev, Get(e.resp.a[CHOOSE i \in hits : \A j \in hits : i <= j], S_id))
             ELSE IF IsRequest(e, "POST", collection) /\ e.outcome = "ok" /\ HasKey(e.resp, S_id)
             THEN Append(prev, Get(e.resp, S_id))
             ELSE prev

\* C33: the post-creation request of a generate_post_with_ai call carries
\* under categories and tags exactly the ids its listings and creations
\* resolved, in that order, and leaves a key out when nothing resolved for
\* it; a finished call with well-formed names whose listings were all
\* answered has sent that request, however many names resolved
C33_PostCarriesResolvedIds ==
    \A t \in AllTasks :
        LET a == task[t]
        IN  Generating(a) =>
              /\ \A i \in C24_PostCreations(a) :
                    LET body == a.log[i].req.json
                        cats == C33_Ids(a, S_categories, "categories", i - 1)
                        tags == C33_Ids(a, S_tags, "tags", i - 1)
                    IN  /\ HasKey(body, S_categories) <=> cats # <<>>
                        /\ HasKey(body, S_tags) <=> tags # <<>>
                        /\ cats # <<>> => Get(body, S_categories) = JArr(cats)
                        /\ tags # <<>> => Get(body, S_tags) = JArr(tags)
              /\ (a.pc = "done" /\ WellFormedNames(a)
                    /\ \A i \in C24_Listings(a) : a.log[i].outcome = "ok") =>
                    Cardinality(C24_PostCreations(a)) = 1

\* of the categories "C" and "A" only one resolved and there were no tags:
\* the post was created with the one category id and without a tags key
C33_Witness ==
    \E t \in AllTasks :
        LET a == task[t]
        IN  /\ Generating(a)
            /\ a.pc = "done"
            /\ a.response.kind = "result"
            /\ Len(NamesOf(a, S_categories)) = 2
            /\ \E i \in C24_PostCreations(a) :
                  /\ Get(a.log[i].req.json, S_categories)
                        = JArr(C33_Ids(a, S_categories, "categories", i - 1))
                  /\ Len(Get(a.log[i].req.json, S_categories).a) = 1
                  /\ ~HasKey(a.log[i].req.json, S_tags)
                  /\ a.log[i].outcome = "ok"

\* C34: a generate_post_with_ai call that has sent a request has generated
\* and normalized its document before; it sends its requests one after the
\* other, the category listings before the tag requests; it sends at most
\* one post-creation request, as its last request, when every listing and
\* tag creation before it has been answered
C34_PipelineOrder ==
    \A t \in AllTasks :
        LET a == task[t]
        IN  (a.name = "generate_post_with_ai" /\ a.log # <<>>) =>
              /\ a.provider_calls = 1
              /\ a.provider = "text"
              /\ a.ai_content.t = "dict"
              /\ \A i \in 1..(Len(a.log) - 1) : a.log[i].outcome # "pending"
              /\ \A i, j \in 1..Len(a.log) :
                    (IsRequest(a.log[i], "GET", "categories")
                        /\ a.log[j].req.endpoint.collection = "tags") => i < j
              /\ Cardinality(C24_PostCreations(a)) <= 1
              /\ \A i \in C24_PostCreations(a) :
                    /\ i = Len(a.log)
                    /\ \A j \in 1..(i - 1) :
                          \/ IsRequest(a.log[j], "GET", "categories")
                          \/ IsRequest(a.log[j], "GET", "tags")
                          \/ IsRequest(a.log[j], "POST", "tags")

\* a call has listed the categories, listed the tags, created a tag and
\* only then asked for the post
C34_Witness ==
    \E t \in AllTasks :
        LET a == task[t]
        IN  /\ Generating(a)
            /\ Len(a.log) >= 4
            /\ IsRequest(a.log[1], "GET", "categories")
            /\ \E j \in 2..(Len(a.log) - 1) : IsRequest(a.log[j], "GET", "tags")
            /\ \E j \in 2..(Len(a.log) - 1) :
                  IsRequest(a.log[j], "POST", "tags") /\ a.log[j].outcome = "ok"
            /\ IsRequest(a.log[Len(a.log)], "POST", "posts")
            /\ a.pc = "create_post"

\* the name a tag-creation request asks for
C37_Created(a, k) == DictGet(a.log[k].req.json, S_name, JNull)
\* the resolved tag ids are the ids the answers gave, in the order of the names
C37_InOrder ==
    \A t \in Tasks :
        Generating(task[t]) =>
            task[t].tag_ids = C33_Ids(task[t], S_tags, "tags", Len(task[t].log))
\* no creation is asked for a name for which an earlier creation of the
\* same call succeeded
C37_CreatedOnce ==
    \A t \in Tasks :
        LET a == task[t]
        IN  Generating(a) =>
              \A k1, k2 \in CreationCalls(a) :
                  (k1 < k2 /\ a.log[k1].outcome = "ok"
                      /\ C37_Created(a, k1).t = "str" /\ C37_Created(a, k2).t = "str") =>
                     ~SameIgnoringCase(C37_Created(a, k1).s, C37_Created(a, k2).s)
\* C37 (as stated): with one caller at a time, the tag ids of a call follow
\* the order of its names, and a name that occurs again in the call, in
\* any case, finds the term created for its first occurrence: no second
\* creation is asked for it
C37_RepeatedNameReused == C37_InOrder /\ C37_CreatedOnce

ReadOnlyTools == {"list_categories", "list_posts", "search_posts", "list_tags", "search_tags"}

\* C38: a step of a read-only tool (its call and the answer to its request)
\* leaves the content service's categories, tags, posts and media and its
\* next id as they were, and every request such a tool has sent is a GET
C38_Step ==
    \A t \in Tasks :
        task'[t].name \in ReadOnlyTools =>
            /\ \A i \in 1..Len(task'[t].log) : task'[t].log[i].req.method = "GET"
            /\ UNCHANGED <<wp_categories, wp_tags, wp_posts, wp_media, next_id>>
C38_ReadOnlyToolsOnlyRead == [][C38_Step]_vars

\* the second of two calls was search_tags, it was answered, and the
\* service holds what it held at the start
C38_Witness ==
    \E t \in Tasks :
        /\ calls = 2
        /\ task[t].name = "search_tags"
        /\ task[t].pc = "done"
        /\ Len(task[t].log) = 1
        /\ task[t].log[1].outcome = "ok"
        /\ task[t].response.kind = "result"
        /\ wp_tags = <<Term(1, <<"A">>)>>
        /\ wp_posts = <<Post(3, S_draft)>>
        /\ next_id = 4

(***************************************************************************)
(* Claims about the JSON-RPC endpoint, checked under SpecRpc.              *)
(***************************************************************************)
\* C36 (as stated): every finished POST to the JSON-RPC endpoint is answered
\* with an envelope that holds jsonrpc "2.0", the id of the request and
\* exactly one of result and error, whatever the body
C36_AlwaysEnvelope ==
    \A t \in Tasks :
        LET a == task[t]
            e == Envelope(a.body, a.response)
        IN  (a.pc = "done" /\ a.transport = "jsonrpc") =>
               /\ e.jsonrpc = "2.0"
               /\ e.id = DictGet(a.body, S_id, JNull)
               /\ Cardinality(e.members) = 1
====
